---------------------------- MODULE Spec2Model ----------------------------
(***************************************************************************)
(* Univid-Downloader: the /api/analyze and /api/download route handlers,   *)
(* their platform classifier, the YouTube relay stream and the part of the *)
(* client (handleDownload) that consumes a download response.              *)
(*                                                                         *)
(* Strings that the code inspects character by character (URLs, regular    *)
(* expression literals) are sequences of one-character strings.            *)
(***************************************************************************)
EXTENDS Integers, Sequences, FiniteSets, TLC

(***************************************************************************)
(* Characters and string helpers                                           *)
(***************************************************************************)
UpperAlpha ==
    <<"A","B","C","D","E","F","G","H","I","J","K","L","M",
      "N","O","P","Q","R","S","T","U","V","W","X","Y","Z">>

LowerAlpha ==
    <<"a","b","c","d","e","f","g","h","i","j","k","l","m",
      "n","o","p","q","r","s","t","u","v","w","x","y","z">>

\* Canonicalisation used by the /i flag, restricted to ASCII letters.
Lower(c) ==
    IF \E i \in 1..26 : UpperAlpha[i] = c
    THEN LowerAlpha[CHOOSE i \in 1..26 : UpperAlpha[i] = c]
    ELSE c

LowerSeq(s) == [i \in 1..Len(s) |-> Lower(s[i])]

RECURSIVE Cat(_)
Cat(parts) == IF parts = <<>> THEN <<>> ELSE Head(parts) \o Cat(Tail(parts))

\* pattern literal `pat` matches `s` at position i, compared as written
MatchAt(pat, s, i) ==
    /\ i >= 1
    /\ i + Len(pat) - 1 <= Len(s)
    /\ \A k \in 1..Len(pat) : s[i + k - 1] = pat[k]

\* pattern literal `pat` (lower case) matches `s` at position i under /i
MatchAtCI(pat, s, i) ==
    /\ i >= 1
    /\ i + Len(pat) - 1 <= Len(s)
    /\ \A k \in 1..Len(pat) : Lower(s[i + k - 1]) = pat[k]

\* /(?:a|b|...)/i.test(s) for a set of literal alternatives
RegexTestCI(alts, s) ==
    \E i \in 1..Len(s) : \E pat \in alts : MatchAtCI(pat, s, i)

(***************************************************************************)
(* The regular expression literals of the route handlers                   *)
(***************************************************************************)
P_youtube_com   == <<"y","o","u","t","u","b","e",".","c","o","m">>
P_youtu_be      == <<"y","o","u","t","u",".","b","e">>
P_tiktok_com    == <<"t","i","k","t","o","k",".","c","o","m">>
P_instagram_com == <<"i","n","s","t","a","g","r","a","m",".","c","o","m">>
P_facebook_com  == <<"f","a","c","e","b","o","o","k",".","c","o","m">>
P_fb_watch      == <<"f","b",".","w","a","t","c","h">>

P_watch_v == <<"/","w","a","t","c","h","?","v","=">>
P_embed   == <<"/","e","m","b","e","d","/">>
P_v       == <<"/","v","/">>
P_shorts  == <<"/","s","h","o","r","t","s","/">>
P_slash   == <<"/">>

Platforms == {"youtube", "tiktok", "instagram", "facebook", "unknown"}

\* detectPlatform, with one rule moved: the tiktok test comes first
detectPlatform_TikTokFirst(url) ==
    IF RegexTestCI({P_tiktok_com}, url) THEN "tiktok"
    ELSE IF RegexTestCI({P_youtube_com, P_youtu_be}, url) THEN "youtube"
    ELSE IF RegexTestCI({P_instagram_com}, url) THEN "instagram"
    ELSE IF RegexTestCI({P_facebook_com, P_fb_watch}, url) THEN "facebook"
    ELSE "unknown"

\* route.ts detectPlatform (the same text in both route handlers)
detectPlatform(url) ==
    IF RegexTestCI({P_youtube_com, P_youtu_be}, url) THEN "youtube"
    ELSE IF RegexTestCI({P_tiktok_com}, url) THEN "tiktok"
    ELSE IF RegexTestCI({P_instagram_com}, url) THEN "instagram"
    ELSE IF RegexTestCI({P_facebook_com, P_fb_watch}, url) THEN "facebook"
    ELSE "unknown"

\* characters excluded by the class [^&\n?#]
IdStop == {"&", "\n", "?", "#"}

\* last index of the greedy run ([^&\n?#]+) that starts at j
RunEnd(s, j) ==
    CHOOSE e \in j..Len(s) :
        /\ \A k \in j..e : s[k] \notin IdStop
        /\ (e = Len(s) \/ s[e + 1] \in IdStop)

\* literal prefixes of the two patterns of extractYouTubeId (no /i flag)
YtIdPrefixes1 ==
    { P_youtube_com \o P_watch_v, P_youtu_be \o P_slash,
      P_youtube_com \o P_embed,   P_youtube_com \o P_v }

YtIdPrefixes2 == { P_youtube_com \o P_shorts }

\* positions where (?:prefix)([^&\n?#]+) matches
IdMatchStarts(prefixes, s) ==
    { i \in 1..Len(s) :
        \E p \in prefixes :
            /\ MatchAt(p, s, i)
            /\ i + Len(p) <= Len(s)
            /\ s[i + Len(p)] \notin IdStop }

\* url.match(pattern): the leftmost match and its capture group 1
IdMatch(prefixes, s) ==
    LET starts == IdMatchStarts(prefixes, s) IN
    IF starts = {} THEN [found |-> FALSE, id |-> <<>>]
    ELSE LET i == CHOOSE x \in starts : \A y \in starts : x <= y
             p == CHOOSE q \in prefixes : MatchAt(q, s, i)
             j == i + Len(p)
         IN  [found |-> TRUE, id |-> SubSeq(s, j, RunEnd(s, j))]

\* extractYouTubeId: first pattern that matches, else null (found = FALSE)
extractYouTubeId(url) ==
    IF IdMatch(YtIdPrefixes1, url).found THEN IdMatch(YtIdPrefixes1, url)
    ELSE IdMatch(YtIdPrefixes2, url)

(***************************************************************************)
(* Input fragments: URLs are built by concatenating these                  *)
(***************************************************************************)
F_https        == <<"h","t","t","p","s",":","/","/">>
F_www          == <<"w","w","w",".">>
F_YOUTUBE_COM  == <<"Y","O","U","T","U","B","E",".","C","O","M">>
F_YouTu_Be     == <<"Y","o","u","T","u",".","B","e">>
F_youtubeXcom  == <<"y","o","u","t","u","b","e","X","c","o","m">>
F_you          == <<"y","o","u">>
F_tube_com     == <<"t","u","b","e",".","c","o","m">>
F_TikTok_Com   == <<"T","i","k","T","o","k",".","C","o","m">>
F_vm           == <<"v","m",".">>
F_fbXwatch     == <<"f","b","-","w","a","t","c","h">>
F_example_com  == <<"e","x","a","m","p","l","e",".","c","o","m">>
F_video        == <<"/","v","i","d","e","o">>
F_playlist     == <<"/","p","l","a","y","l","i","s","t">>
F_id1          == <<"d","Q","w","4">>
F_id2          == <<"a","b","c">>
F_q_t          == <<"?","t","=","1">>
F_reel         == <<"/","r","e","e","l","/","C","x","/">>
F_abc123       == <<"/","A","B","C","1","2","3">>
F_at_user      == <<"/","@","y","o","u","t","u","b","e",".","c","o","m","/","v","i","d","e","o","/","7">>

\* longest URL of the classifier specification, in fragments
MaxFrags == 2

ClassifyFrags ==
    { F_https, F_video, F_example_com, F_at_user,
      P_youtube_com, F_YOUTUBE_COM, P_youtu_be, F_YouTu_Be, F_youtubeXcom,
      F_you, F_tube_com,
      P_tiktok_com, F_TikTok_Com, P_instagram_com,
      P_facebook_com, P_fb_watch, F_fbXwatch }

RECURSIVE FragSeqs(_)
FragSeqs(n) ==
    IF n = 0 THEN { <<>> }
    ELSE FragSeqs(n - 1) \cup
         { Append(fs, f) : fs \in FragSeqs(n - 1), f \in ClassifyFrags }

ClassifyUrls == { Cat(fs) : fs \in FragSeqs(MaxFrags) }

(***************************************************************************)
(* Request URLs of the request specification                               *)
(***************************************************************************)
U_yt_watch    == Cat(<<F_https, F_www, P_youtube_com, P_watch_v, F_id1>>)
U_yt_short    == Cat(<<F_https, P_youtu_be, P_slash, F_id2, F_q_t>>)
U_yt_shorts   == Cat(<<F_https, P_youtube_com, P_shorts, F_id2>>)
U_yt_upper    == Cat(<<F_https, F_www, F_YOUTUBE_COM, P_watch_v, F_id1>>)
U_yt_playlist == Cat(<<F_https, F_www, P_youtube_com, F_playlist>>)
U_tiktok      == Cat(<<F_https, F_vm, P_tiktok_com, F_abc123>>)
U_instagram   == Cat(<<F_https, F_www, P_instagram_com, F_reel>>)
U_ig_profile  == Cat(<<F_https, F_www, P_instagram_com, F_video>>)
U_facebook    == Cat(<<F_https, P_fb_watch, P_slash, F_id2>>)
U_unknown     == Cat(<<F_https, F_example_com, F_video>>)

RequestUrls ==
    { U_yt_watch, U_yt_short, U_yt_shorts, U_yt_upper, U_yt_playlist,
      U_tiktok, U_instagram, U_ig_profile, U_facebook, U_unknown }

(***************************************************************************)
(* JSON values of a request body                                           *)
(***************************************************************************)
\* the value of body.url: undefined (absent), null, a number, or a string
JsUndefined == [type |-> "undefined", chars |-> <<>>]
JsNull      == [type |-> "null",      chars |-> <<>>]
JsNumber    == [type |-> "number",    chars |-> <<>>]
JsString(s) == [type |-> "string",    chars |-> s]

UrlValues ==
    { JsUndefined, JsNull, JsNumber, JsString(<<>>) }
        \cup { JsString(u) : u \in RequestUrls }

\* body.quality: "" stands for an absent field, the rest are labels
QualityValues == { "", "1080p", "720p", "360p", "4K" }

\* request bodies: text that is not JSON, the JSON value null, a JSON scalar
\* or array (no url property), or an object
Bodies ==
    { [kind |-> k, url |-> JsUndefined, quality |-> ""] :
          k \in {"malformed", "null", "scalar"} }
        \cup { [kind |-> "object", url |-> u, quality |-> q] :
                  u \in UrlValues, q \in QualityValues }

(***************************************************************************)
(* Responses                                                               *)
(***************************************************************************)
NoThumb == [kind |-> "", id |-> <<>>]

NoMeta == [title |-> "", thumbnail |-> NoThumb, duration |-> 0, qualities |-> <<>>]

\* a Content-Length header of a response: present or not, and its value,
\* which is digits (`value`) or the empty string
NoHeader == [present |-> FALSE, digits |-> FALSE, value |-> 0]

NoResponse == [status |-> 0, message |-> "", meta |-> NoMeta, contentLength |-> NoHeader]

JsonError(st, msg) ==
    [status |-> st, message |-> msg, meta |-> NoMeta, contentLength |-> NoHeader]

JsonResult(meta) ==
    [status |-> 200, message |-> "", meta |-> meta, contentLength |-> NoHeader]

M_UrlRequired     == "URL is required"
M_UnsupportedA    == "Unsupported platform. Use YouTube, TikTok, Instagram, or Facebook."
M_UnsupportedD    == "Unsupported platform"
M_InvalidYouTube  == "Invalid YouTube URL"
M_BodySyntax      == "Unexpected token in JSON"
M_BodyDestructure == "Cannot destructure property 'url' of 'body' as it is null."

\* what `const body = await request.json(); const { url } = body` does:
\* "throws" with the message of the exception, or the url it binds
BodyUrl(body) ==
    CASE body.kind = "malformed" -> [throws |-> TRUE, message |-> M_BodySyntax, url |-> JsUndefined]
      [] body.kind = "null"      -> [throws |-> TRUE, message |-> M_BodyDestructure, url |-> JsUndefined]
      [] body.kind = "scalar"    -> [throws |-> FALSE, message |-> "", url |-> JsUndefined]
      [] OTHER                   -> [throws |-> FALSE, message |-> "", url |-> body.url]

\* !url || typeof url !== "string"
UrlRejected(u) == u.type # "string" \/ u.chars = <<>>

\* the switch of POST, with the default case missing: unknown falls into
\* the last extractor
Route_NoDefault(platform) ==
    IF platform = "unknown" THEN "facebook" ELSE platform

\* the switch of POST: the extractor a platform is dispatched to
Route(platform) ==
    IF platform \in {"youtube", "tiktok", "instagram", "facebook"}
    THEN platform
    ELSE "unsupported"

(***************************************************************************)
(* Upstream answers: what oEmbed, ytdl-core, the aggregation API, a page   *)
(* fetch and a media fetch can give back                                   *)
(***************************************************************************)
\* longest list of combined audio+video formats ytdl-core returns
MaxFormats == 2
\* longest list of links the aggregation API returns
MaxLinks == 2

RECURSIVE SeqsUpTo(_, _)
SeqsUpTo(S, n) ==
    IF n = 0 THEN { <<>> }
    ELSE SeqsUpTo(S, n - 1) \cup
         { Append(q, x) : q \in SeqsUpTo(S, n - 1), x \in S }

\* oEmbed: fetch throws, status not ok, body not JSON, JSON null, or a JSON
\* object whose title may be missing or empty ("")
OEmbedNone == [st |-> "none", title |-> ""]
OEmbedOutcomes ==
    { [st |-> s, title |-> ""] : s \in {"throw", "notok", "badjson", "nulljson", "ok"} }
        \cup { [st |-> "ok", title |-> "T_oembed"] }

\* ytdl.getInfo + filterFormats(.., "videoandaudio"): throws, or the
\* qualityLabel of each combined format ("" for a null label) and
\* parseInt(lengthSeconds) (0 when it is missing or not a number)
FormatLabels == { "", "1080p", "720p", "360p" }
InfoNone == [st |-> "none", formats |-> <<>>, lengthSeconds |-> 0]
InfoOutcomes ==
    { [st |-> "throw", formats |-> <<>>, lengthSeconds |-> 0] }
        \cup { [st |-> "ok", formats |-> f, lengthSeconds |-> n] :
                  f \in SeqsUpTo(FormatLabels, MaxFormats), n \in {0, 212} }

\* a key the deployment's environment may hold, and the one in the source
K_env == "K_env"
K_source == "660e8df9ffmshda83470792f30bep12a0b5jsnc90613c2cfde"

\* const RAPIDAPI_KEY = process.env.RAPIDAPI_KEY || "660e..."
RAPIDAPI_KEY(env) == IF env # "" THEN env ELSE K_source

\* fetchFromRapidAPI: if (!RAPIDAPI_KEY) throw
KeyMissing(key) == key = ""

\* an address an upstream gives that is, character for character, the URL
\* the request submitted (the address of the page itself)
PageAddress == "L_page"

\* aggregation API: fetch throws, status not ok, body not JSON, or JSON data
\* (possibly null, possibly without links)
LinkEntries ==
    { [quality |-> "hd", link |-> "L_hd"],
      [quality |-> "sd", link |-> "L_sd"],
      [quality |-> "sd", link |-> PageAddress],
      [quality |-> "sd", link |-> ""] }
ApiNone == [st |-> "none", isNull |-> FALSE, title |-> "", hasLinks |-> FALSE, links |-> <<>>]
ApiOutcomes ==
    { [st |-> s, isNull |-> FALSE, title |-> "", hasLinks |-> FALSE, links |-> <<>>] :
          s \in {"throw", "notok", "badjson"} }
        \cup { [st |-> "ok", isNull |-> TRUE, title |-> "", hasLinks |-> FALSE, links |-> <<>>] }
        \cup { [st |-> "ok", isNull |-> FALSE, title |-> t, hasLinks |-> FALSE, links |-> <<>>] :
                  t \in {"", "T_api"} }
        \cup { [st |-> "ok", isNull |-> FALSE, title |-> t, hasLinks |-> TRUE, links |-> l] :
                  t \in {"", "T_api"}, l \in SeqsUpTo(LinkEntries, MaxLinks) }

\* page fetch of the scraping analyzers: throws, status not ok, or markup
\* with or without an og:title tag (whose content may be empty)
PageNone == [st |-> "none", hasTitle |-> FALSE, title |-> ""]
PageOutcomes ==
    { [st |-> s, hasTitle |-> FALSE, title |-> ""] : s \in {"throw", "notok", "ok"} }
        \cup { [st |-> "ok", hasTitle |-> TRUE, title |-> t] : t \in {"", "T_og"} }

(***************************************************************************)
(* analyzeYouTube                                                          *)
(***************************************************************************)
\* Method 1: the value returned when oEmbed answers ok with a JSON object
OEmbedMeta(o, id) ==
    [title      |-> IF o.title # "" THEN o.title ELSE "YouTube Video",
     thumbnail  |-> [kind |-> "maxresdefault", id |-> id],
     duration   |-> 0,
     qualities  |-> <<"1080p", "720p", "480p", "360p">>]

\* Method 1 never returns: Method 2 runs whatever oEmbed answered
OEmbedReturns_Never(o) == FALSE

\* Method 1 returns (does not fall through to Method 2)
OEmbedReturns(o) == o.st = "ok"

\* parseInt of a quality label
LabelNum(l) ==
    CASE l = "1080p" -> 1080 [] l = "720p" -> 720 [] l = "480p" -> 480
      [] l = "360p" -> 360 [] OTHER -> 0

\* Array.from(set).sort((a, b) => parseInt(b) - parseInt(a))
RECURSIVE SortDesc(_)
SortDesc(S) ==
    IF S = {} THEN <<>>
    ELSE LET m == CHOOSE x \in S : \A y \in S : LabelNum(y) <= LabelNum(x)
         IN  <<m>> \o SortDesc(S \ {m})

\* the quality ladder of Method 2, without the default for an empty ladder
LibraryQualities_NoDefault(formats) ==
    SortDesc({ formats[i] : i \in 1..Len(formats) } \ {""})

\* the quality ladder of Method 2: labels deduplicated, sorted, defaulted
LibraryQualities(formats) ==
    LET qualities == SortDesc({ formats[i] : i \in 1..Len(formats) } \ {""})
    IN  IF Len(qualities) > 0 THEN qualities ELSE <<"720p", "360p">>

\* Method 2: the value returned when ytdl.getInfo succeeds
LibraryMeta(info) ==
    [title      |-> "T_info",
     thumbnail  |-> [kind |-> "info", id |-> <<>>],
     duration   |-> info.lengthSeconds,
     qualities  |-> LibraryQualities(info.formats)]

\* Method 3: last resort
StubMeta(id) ==
    [title      |-> "YouTube Video",
     thumbnail  |-> [kind |-> "hqdefault", id |-> id],
     duration   |-> 0,
     qualities  |-> <<"720p", "360p">>]

\* the ytdl failure is not caught: the request fails
AfterLibraryFailure_Rethrow(id) == JsonError(500, "ytdl-core failed")

\* what analyzeYouTube answers once Method 2 has thrown
AfterLibraryFailure(id) == JsonResult(StubMeta(id))

(***************************************************************************)
(* analyzeTikTok / analyzeInstagram / analyzeFacebook                      *)
(***************************************************************************)
PlatformTitle(p) ==
    CASE p = "tiktok" -> "TikTok Video" [] p = "instagram" -> "Instagram Video"
      [] OTHER -> "Facebook Video"

\* the message each analyzer's catch block throws, per deployment strategy
AnalyzeFailure(strat, p) ==
    CASE strat = "api" /\ p = "tiktok"       -> "Failed to analyze TikTok video"
      [] strat = "api" /\ p = "instagram"    -> "Failed to analyze Instagram video"
      [] strat = "api" /\ p = "facebook"     -> "Failed to analyze Facebook video"
      [] strat = "scrape" /\ p = "tiktok"    -> "Failed to analyze TikTok video. It may be private."
      [] strat = "scrape" /\ p = "instagram" -> "Failed to analyze Instagram video. It may be private or require login."
      [] OTHER                               -> "Failed to analyze Facebook video. It may be private."

\* data.links[0].link when data.links is a non-empty list, else ""
FirstLink(a) ==
    IF a.hasLinks /\ Len(a.links) > 0 THEN a.links[1].link ELSE ""

\* the aggregation-API analyzers: the response for an API answer
ApiAnalyze(p, a) ==
    IF a.st # "ok" \/ a.isNull \/ (p = "tiktok" /\ FirstLink(a) = "")
    THEN JsonError(500, AnalyzeFailure("api", p))
    ELSE JsonResult([title     |-> IF a.title # "" THEN a.title ELSE PlatformTitle(p),
                     thumbnail |-> [kind |-> "picture", id |-> <<>>],
                     duration  |-> 0,
                     qualities |-> <<"HD", "SD">>])

\* the scraping analyzers: the response for a fetched page
PageAnalyze(p, g) ==
    IF g.st # "ok"
    THEN JsonError(500, AnalyzeFailure("scrape", p))
    ELSE JsonResult([title     |-> IF g.hasTitle THEN g.title ELSE PlatformTitle(p),
                     thumbnail |-> [kind |-> "og:image", id |-> <<>>],
                     duration  |-> 0,
                     qualities |-> <<"HD", "SD">>])

Digits == {"0","1","2","3","4","5","6","7","8","9"}

\* the class [A-Za-z0-9_-]
IsWordDash(c) ==
    \/ \E i \in 1..26 : c = UpperAlpha[i] \/ c = LowerAlpha[i]
    \/ c \in Digits
    \/ c \in {"_", "-"}

P_p_    == <<"p","/">>
P_reel_ == <<"r","e","e","l","/">>
P_reels == <<"r","e","e","l","s","/">>

\* url.match(/(?:p|reel|reels)\/([A-Za-z0-9_-]+)/) is not null
HasInstagramShortcode(url) ==
    \E i \in 1..Len(url) : \E p \in {P_p_, P_reel_, P_reels} :
        /\ MatchAt(p, url, i)
        /\ i + Len(p) <= Len(url)
        /\ IsWordDash(url[i + Len(p)])

(***************************************************************************)
(* downloadYouTube / downloadTikTok / downloadInstagram / downloadFacebook *)
(***************************************************************************)
\* number of chunks an upstream media body holds at most
MaxChunks == 2

M_YouTubeBlocked == "YouTube download is currently unavailable on this server. YouTube blocks requests from cloud servers. Please try TikTok, Instagram, or Facebook videos instead."
M_NoFormat       == "No suitable format found"

\* const { url, quality = "720p" } = body
DesiredQuality(body) == IF body.quality = "" THEN "720p" ELSE body.quality

\* the selection with the fallback to formats[0] left out
SelectFormat_NoFallback(formats, quality) ==
    LET hits == { i \in 1..Len(formats) : formats[i] = quality }
    IN  IF hits # {} THEN CHOOSE i \in hits : \A j \in hits : i <= j
        ELSE 0

\* formats.find(f => f.qualityLabel === quality), else formats[0]:
\* the index of the selected format, 0 when there is none
SelectFormat(formats, quality) ==
    LET hits == { i \in 1..Len(formats) : formats[i] = quality }
    IN  IF hits # {} THEN CHOOSE i \in hits : \A j \in hits : i <= j
        ELSE IF Len(formats) > 0 THEN 1
        ELSE 0

\* the message downloadYouTube's catch block throws, whatever was caught
YouTubeDownloadFailure(cause) == M_YouTubeBlocked

\* one message for every downloader
DownloadFailure_Generic(strat, p) == "Download failed"

\* the message each downloader's catch block throws, per deployment strategy
DownloadFailure(strat, p) ==
    CASE strat = "api" /\ p = "tiktok"       -> "Failed to download TikTok video via RapidAPI"
      [] strat = "api" /\ p = "instagram"    -> "Failed to download Instagram video via RapidAPI"
      [] strat = "api" /\ p = "facebook"     -> "Failed to download Facebook video via RapidAPI"
      [] strat = "scrape" /\ p = "tiktok"    -> "Failed to download TikTok video. It may be private or region-locked."
      [] strat = "scrape" /\ p = "instagram" -> "Failed to download Instagram video. It may require login or be private."
      [] OTHER                               -> "Failed to download Facebook video. It may require login or be private."

\* the link an aggregation-API downloader streams ("" when it finds none):
\* Facebook prefers the link tagged hd, TikTok and Instagram take the first
ApiPickLink(p, a) ==
    IF a.st # "ok" \/ a.isNull \/ ~a.hasLinks \/ Len(a.links) = 0 THEN ""
    ELSE IF p = "facebook" /\ \E i \in 1..Len(a.links) : a.links[i].quality = "hd"
         THEN a.links[CHOOSE i \in 1..Len(a.links) :
                         /\ a.links[i].quality = "hd"
                         /\ \A j \in 1..(i - 1) : a.links[j].quality # "hd"].link
         ELSE a.links[1].link

\* the extraction patterns of the scraping downloaders, in the order tried
ScrapePatterns(p) ==
    CASE p = "tiktok"    -> <<"SIGI_STATE", "UNIVERSAL_DATA", "playAddr", "og:video">>
      [] p = "instagram" -> <<"og:video", "contentUrl", "video_url">>
      [] OTHER           -> <<"hd_src", "sd_src", "og:video">>

\* what a pattern of a scraping downloader gives on a page: "miss" (no
\* match), "void" (a JSON block that matched but does not parse or holds no
\* address), "" (a match whose captured text is empty, or is empty once the
\* escapes are removed), or the address found, named after its pattern; the
\* content of an og:video tag may also be the address of the page itself
PageYields(name) ==
    CASE name \in {"SIGI_STATE", "UNIVERSAL_DATA"}  -> {"miss", "void", name}
      [] name \in {"playAddr", "hd_src", "sd_src"}  -> {"miss", "", name}
      [] name = "og:video"                          -> {"miss", "", name, PageAddress}
      [] OTHER                                      -> {"miss", name}

DlPageNone == [st |-> "none", yields |-> <<>>]
DlPageOutcomes(p) ==
    { [st |-> s, yields |-> <<>>] : s \in {"throw", "notok"} }
        \cup { [st |-> "ok", yields |-> y] :
                  y \in { f \in [1..Len(ScrapePatterns(p)) -> {"miss", "void", "", PageAddress} \cup
                                    { ScrapePatterns(p)[k] : k \in 1..Len(ScrapePatterns(p)) }] :
                            \A k \in 1..Len(ScrapePatterns(p)) :
                                f[k] \in PageYields(ScrapePatterns(p)[k]) } }

\* the chain given up at the first pattern that matched without an address
ScrapeExtract_AbortOnVoid(g) ==
    LET hits  == { k \in 1..Len(g.yields) : g.yields[k] \notin {"miss", "void", ""} }
        first == CHOOSE k \in hits : \A j \in hits : k <= j
    IN  IF g.st # "ok" \/ hits = {} THEN ""
        ELSE IF \E j \in 1..(first - 1) : g.yields[j] \in {"void", ""} THEN ""
        ELSE g.yields[first]

\* the media URL a scraping downloader extracts: the yield of the first
\* pattern that gives a non-empty address, "" when none does
ScrapeExtract(g) ==
    LET hits == { k \in 1..Len(g.yields) : g.yields[k] \notin {"miss", "void", ""} }
    IN  IF g.st # "ok" \/ hits = {} THEN ""
        ELSE g.yields[CHOOSE k \in hits : \A j \in hits : k <= j]

\* media fetch: throws, answers a non-success status, or answers ok; `len`
\* is the length the answer declares in its content-length header, counted
\* in chunks, 0 when it has no such header
MediaNone == [st |-> "none", len |-> 0]
MediaOutcomes ==
    { [st |-> s, len |-> 0] : s \in {"throw", "notok"} }
        \cup { [st |-> "ok", len |-> n] : n \in 0..MaxChunks }

\* the media request of the ytdl stream: its answer's headers never reach
\* downloadYouTube, which sees the stream's events only
YtMediaOutcomes == { m \in MediaOutcomes : m.len = 0 }

\* "Content-Length": videoResponse.headers.get("content-length") || ""
ContentLengthHeader(m) ==
    IF m.len > 0 THEN [present |-> TRUE, digits |-> TRUE, value |-> m.len]
    ELSE [present |-> TRUE, digits |-> FALSE, value |-> 0]

\* parseInt(response.headers.get("content-length") || "0")
ParseContentLength(h) == IF h.present /\ h.digits THEN h.value ELSE 0

\* Math.round((receivedLength / contentLength) * 100) of the lengths so far
Progress_OfRemaining(received, contentLength) ==
    (2 * 100 * (contentLength - received) + contentLength) \div (2 * contentLength)

\* Math.round((receivedLength / contentLength) * 100)
Progress(received, contentLength) ==
    (2 * 100 * received + contentLength) \div (2 * contentLength)

(***************************************************************************)
(* store.ts detectPlatform (the client-side classifier)                    *)
(***************************************************************************)
P_at      == <<"/","@">>
P_video_  == <<"/","v","i","d","e","o","/">>
P_videos_ == <<"/","v","i","d","e","o","s","/">>
P_vm      == <<"v","m",".">>
P_p       == <<"/","p","/">>
P_reel    == <<"/","r","e","e","l","/">>
P_reels_  == <<"/","r","e","e","l","s","/">>

\* the class [\w.-]
IsWordDotDash(c) == IsWordDash(c) \/ c = "."

\* /tiktok\.com\/@[\w.-]+\/video\//i
StoreTikTokLong(s) ==
    \E i \in 1..Len(s) :
        /\ MatchAtCI(P_tiktok_com \o P_at, s, i)
        /\ \E j \in (i + Len(P_tiktok_com \o P_at) + 1)..Len(s) :
              /\ \A k \in (i + Len(P_tiktok_com \o P_at))..(j - 1) : IsWordDotDash(s[k])
              /\ MatchAtCI(P_video_, s, j)

\* /facebook\.com\/.*\/videos\//i
StoreFacebookLong(s) ==
    \E i \in 1..Len(s) :
        /\ MatchAtCI(P_facebook_com \o P_slash, s, i)
        /\ \E j \in (i + Len(P_facebook_com \o P_slash))..Len(s) :
              /\ \A k \in (i + Len(P_facebook_com \o P_slash))..(j - 1) : s[k] # "\n"
              /\ MatchAtCI(P_videos_, s, j)

\* store.ts detectPlatform: the first entry of `patterns` whose regex tests
storeDetectPlatform(url) ==
    IF RegexTestCI({ P_youtube_com \o P_watch_v, P_youtube_com \o P_shorts,
                     P_youtu_be \o P_slash }, url) THEN "youtube"
    ELSE IF StoreTikTokLong(url) \/ RegexTestCI({ P_vm \o P_tiktok_com \o P_slash }, url)
         THEN "tiktok"
    ELSE IF RegexTestCI({ P_instagram_com \o P_p, P_instagram_com \o P_reel,
                          P_instagram_com \o P_reels_ }, url) THEN "instagram"
    ELSE IF StoreFacebookLong(url) \/ RegexTestCI({ P_fb_watch \o P_slash }, url)
         THEN "facebook"
    ELSE "unknown"

(***************************************************************************)
(* State                                                                   *)
(***************************************************************************)
VARIABLES
    input,      \* classifier specification: the string handed to detectPlatform
    tag,        \* classifier specification: the tag returned ("none" before)
    uiTag,      \* classifier specification: the tag the page's classifier
                \* returned ("none" before)
    source,     \* filename specification: the downloader and the video's title
    contentDisposition,
                \* filename specification: the value of the response's
                \* Content-Disposition header (empty before)
    filename,   \* filename specification: the name the page saves the
                \* download as (empty before)
    strategy,   \* deployment: "api" (aggregation API) or "scrape" (page scraping)
    envKey,     \* deployment: process.env.RAPIDAPI_KEY ("" when it is not set)
    req,        \* the request being handled: endpoint, body, sender
    pc,         \* where the handler is: idle, arrived, awaiting an upstream, done
    platform,   \* POST's `platform`
    videoId,    \* analyzeYouTube's `videoId`
    calls,      \* upstream calls issued while handling the request, in order
    upstream,   \* the answers those calls got
    selected,   \* downloadYouTube's `selectedFormat` (index into formats, 0: none)
    mediaUrl,   \* the downloaders' `videoUrl`
    resp,       \* the response returned to the client (status 0: none yet)
    up,         \* the upstream media body: state and chunks produced
    chan,       \* the response body stream: state, chunks queued, and whether
                \* a call on its controller has thrown
    rx,         \* the client's side of the request: position, chunks received
    video,      \* the client's record of the video (store.ts VideoInfo)
    videos,     \* queue specification: the store's `videos`
    nextId,     \* queue specification: the next id randomUUID gives
    isAnalyzing,\* queue specification: url-input.tsx's state of that name
    inflight    \* queue specification: the page's requests not yet settled

fvars == <<source, contentDisposition, filename>>

cvars == <<input, tag, uiTag, fvars>>

hvars == <<req, pc, platform, videoId, calls, upstream, selected, mediaUrl, resp>>

stvars == <<up, chan>>

clvars == <<rx, video>>

dvars == <<strategy, envKey>>

svars == <<dvars, hvars, stvars, clvars>>

qvars == <<videos, nextId, isAnalyzing, inflight>>

vars == <<cvars, svars, qvars>>

NoBody == [kind |-> "scalar", url |-> JsUndefined, quality |-> ""]

NoRequest == [endpoint |-> "none", body |-> NoBody, from |-> "none"]

NoId == [found |-> FALSE, id |-> <<>>]

NoUpstream ==
    [oembed |-> OEmbedNone, info |-> InfoNone, api |-> ApiNone,
     page |-> PageNone, dlpage |-> DlPageNone, media |-> MediaNone]

NoStream == [st |-> "none", sent |-> 0]

NoChannel == [st |-> "none", queued |-> 0, thrown |-> FALSE]

NoReader == [pc |-> "none", received |-> 0, contentLength |-> 0, cut |-> -1]

NoVideo ==
    [status |-> "absent", url |-> <<>>, qualities |-> <<>>,
     selectedQuality |-> "", progress |-> 0]

\* the handler's own state before a request
HandlerFresh ==
    /\ platform = ""
    /\ videoId = NoId
    /\ calls = <<>>
    /\ upstream = NoUpstream
    /\ selected = 0
    /\ mediaUrl = ""
    /\ resp = NoResponse
    /\ up = NoStream
    /\ chan = NoChannel

NoSource == [platform |-> "none", title |-> <<>>]

\* no download has been named
Unnamed ==
    /\ source = NoSource
    /\ contentDisposition = <<>>
    /\ filename = <<>>

\* the page has just been loaded
QueueEmpty ==
    /\ videos = <<>>
    /\ nextId = 1
    /\ isAnalyzing = FALSE
    /\ inflight = {}

\* no request has arrived
ServerIdle ==
    /\ req = NoRequest
    /\ pc = "idle"
    /\ HandlerFresh
    /\ rx = NoReader
    /\ video = NoVideo

(***************************************************************************)
(* Classifier specification: detectPlatform applied to every bounded URL   *)
(***************************************************************************)
InitClassify ==
    /\ input \in ClassifyUrls
    /\ tag = "none"
    /\ uiTag = "none"
    /\ Unnamed
    /\ strategy = "api"
    /\ envKey = ""
    /\ ServerIdle
    /\ QueueEmpty

\* a call of the server-side detectPlatform
Classify ==
    /\ tag = "none"
    /\ tag' = detectPlatform(input)
    /\ UNCHANGED <<input, uiTag, fvars, svars, qvars>>

\* a call of the page's detectPlatform (url-input.tsx currentPlatform)
ClassifyClient ==
    /\ uiTag = "none"
    /\ uiTag' = storeDetectPlatform(input)
    /\ UNCHANGED <<input, tag, fvars, svars, qvars>>

NextClassify == Classify \/ ClassifyClient

SpecClassify == InitClassify /\ [][NextClassify]_vars

(***************************************************************************)
(* Request specification: requests to /api/analyze and /api/download, one  *)
(* at a time, each from its sending to its response (and, for a download,  *)
(* to the end of the relayed stream).  A handler action is the stretch of  *)
(* the handler between two awaits; the answer of the awaited upstream is   *)
(* the action's input.  Requests come from the page (handleAnalyze, then   *)
(* handleDownload on the record it made ready) or from any other HTTP      *)
(* client, with any body.                                                  *)
(***************************************************************************)
Init ==
    /\ input = <<>>
    /\ tag = "none"
    /\ uiTag = "none"
    /\ Unnamed
    /\ strategy \in {"api", "scrape"}
    /\ envKey \in IF strategy = "api" THEN {"", K_env} ELSE {""}
    /\ ServerIdle
    /\ QueueEmpty

\* a request leaves its sender; the handler starts from scratch
Arrive(endpoint, body, from) ==
    /\ req' = [endpoint |-> endpoint, body |-> body, from |-> from]
    /\ pc' = "arrived"
    /\ platform' = ""
    /\ videoId' = NoId
    /\ calls' = <<>>
    /\ upstream' = NoUpstream
    /\ selected' = 0
    /\ mediaUrl' = ""
    /\ resp' = NoResponse
    /\ up' = NoStream
    /\ chan' = NoChannel
    /\ rx' = [NoReader EXCEPT !.pc = "waiting"]

\* some HTTP client posts `body` to /api/analyze
SendAnalyze(body) ==
    /\ pc = "idle"
    /\ Arrive("analyze", body, "raw")
    /\ UNCHANGED <<cvars, qvars, dvars, video>>

\* some HTTP client posts `body` to /api/download
SendDownload(body) ==
    /\ pc = "idle"
    /\ Arrive("download", body, "raw")
    /\ UNCHANGED <<cvars, qvars, dvars, video>>

\* url-input.tsx handleAnalyze up to its fetch: the guards, addVideo,
\* status analyzing, and the request
HandleAnalyze(url) ==
    /\ pc = "idle"
    /\ url # <<>>
    /\ storeDetectPlatform(url) # "unknown"
    /\ video.status = "absent"
    /\ video' = [NoVideo EXCEPT !.status = "analyzing", !.url = url,
                                !.selectedQuality = "720p"]
    /\ Arrive("analyze", [kind |-> "object", url |-> JsString(url), quality |-> ""], "ui")
    /\ UNCHANGED <<cvars, qvars, dvars>>

\* the selection stays what addVideo set
DefaultQuality_Always720p(qualities) == "720p"

\* data.qualities.includes("720p") ? "720p" : data.qualities[0]
DefaultQuality(qualities) ==
    IF \E i \in 1..Len(qualities) : qualities[i] = "720p" THEN "720p" ELSE qualities[1]

\* url-input.tsx handleAnalyze after its fetch: ready with the metadata, or
\* error
AnalyzeResponse ==
    /\ req.endpoint = "analyze"
    /\ rx.pc = "waiting"
    /\ resp.status # 0
    /\ rx' = [rx EXCEPT !.pc = "done"]
    /\ video' =
         IF req.from # "ui" THEN video
         ELSE IF resp.status # 200 THEN [video EXCEPT !.status = "error"]
         ELSE [video EXCEPT
                 !.status = "ready",
                 !.qualities = resp.meta.qualities,
                 !.selectedQuality = DefaultQuality(resp.meta.qualities)]
    /\ UNCHANGED <<cvars, qvars, dvars, hvars, stvars>>

\* video-card.tsx handleQualityChange: the select of the card, rendered
\* while the record is ready, offers the record's qualities
HandleQualityChange(q) ==
    /\ video.status = "ready"
    /\ \E k \in 1..Len(video.qualities) : video.qualities[k] = q
    /\ video.selectedQuality # q
    /\ video' = [video EXCEPT !.selectedQuality = q]
    /\ UNCHANGED <<cvars, qvars, dvars, hvars, stvars, rx>>

\* video-card.tsx handleDownload up to its fetch: status downloading,
\* progress 0, and the request
HandleDownload ==
    /\ video.status = "ready"
    /\ video' = [video EXCEPT !.status = "downloading", !.progress = 0]
    /\ Arrive("download",
              [kind |-> "object", url |-> JsString(video.url),
               quality |-> video.selectedQuality], "ui")
    /\ UNCHANGED <<cvars, qvars, dvars>>

\* the handler answers without issuing an upstream call
Answered(r, plat) ==
    [pc |-> "done", platform |-> plat, videoId |-> NoId, calls |-> <<>>, resp |-> r]

\* the handler issues the upstream call `what` and awaits it
Awaiting(what, plat, id) ==
    [pc |-> what, platform |-> plat, videoId |-> id, calls |-> <<what>>, resp |-> NoResponse]

\* analyze POST from its entry to its first upstream call or its response
AnalyzeEntry(strat, key, body) ==
    LET b    == BodyUrl(body)
        url  == b.url.chars
        plat == detectPlatform(url)
        ex   == Route(plat)
        id   == extractYouTubeId(url)
    IN  IF b.throws THEN Answered(JsonError(500, b.message), "")
        ELSE IF UrlRejected(b.url) THEN Answered(JsonError(400, M_UrlRequired), "")
        ELSE IF ex = "unsupported" THEN Answered(JsonError(400, M_UnsupportedA), plat)
        ELSE IF ex = "youtube"
             THEN IF ~id.found
                  THEN Answered(JsonError(500, M_InvalidYouTube), plat)
                  ELSE Awaiting("oembed", plat, id)
        ELSE IF strat = "api"
             THEN IF KeyMissing(key)
                  THEN Answered(JsonError(500, AnalyzeFailure("api", ex)), plat)
                  ELSE Awaiting("rapidapi", plat, NoId)
        ELSE IF ex = "instagram" /\ ~HasInstagramShortcode(url)
             THEN Answered(JsonError(500, AnalyzeFailure("scrape", ex)), plat)
             ELSE Awaiting("page", plat, NoId)

\* download POST from its entry to its first upstream call or its response
DownloadEntry(strat, key, body) ==
    LET b    == BodyUrl(body)
        url  == b.url.chars
        plat == detectPlatform(url)
        ex   == Route(plat)
    IN  IF b.throws THEN Answered(JsonError(500, b.message), "")
        ELSE IF UrlRejected(b.url) THEN Answered(JsonError(400, M_UrlRequired), "")
        ELSE IF ex = "unsupported" THEN Answered(JsonError(400, M_UnsupportedD), plat)
        ELSE IF ex = "youtube" THEN Awaiting("ytdl.getInfo", plat, NoId)
        ELSE IF strat = "api"
             THEN IF KeyMissing(key)
                  THEN Answered(JsonError(500, DownloadFailure("api", ex)), plat)
                  ELSE Awaiting("rapidapi", plat, NoId)
        ELSE Awaiting("page", plat, NoId)

\* POST of the route the request was sent to starts
POST ==
    /\ pc = "arrived"
    /\ LET e == IF req.endpoint = "analyze"
                THEN AnalyzeEntry(strategy, RAPIDAPI_KEY(envKey), req.body)
                ELSE DownloadEntry(strategy, RAPIDAPI_KEY(envKey), req.body)
       IN  /\ pc' = e.pc
           /\ platform' = e.platform
           /\ videoId' = e.videoId
           /\ calls' = e.calls
           /\ resp' = e.resp
    /\ UNCHANGED <<cvars, qvars, dvars, req, upstream, selected, mediaUrl, stvars, clvars>>

\* analyzeYouTube, Method 1: the oEmbed fetch settles
AnalyzeOEmbedReply(o) ==
    /\ pc = "oembed"
    /\ upstream' = [upstream EXCEPT !.oembed = o]
    /\ IF OEmbedReturns(o)
       THEN /\ resp' = JsonResult(OEmbedMeta(o, videoId.id))
            /\ pc' = "done"
            /\ calls' = calls
       ELSE /\ resp' = resp
            /\ pc' = "ytdl.getInfo"
            /\ calls' = Append(calls, "ytdl.getInfo")
    /\ UNCHANGED <<cvars, qvars, dvars, req, platform, videoId, selected, mediaUrl, stvars, clvars>>

\* analyzeYouTube, Methods 2 and 3: ytdl.getInfo settles
AnalyzeInfoReply(i) ==
    /\ pc = "ytdl.getInfo"
    /\ req.endpoint = "analyze"
    /\ upstream' = [upstream EXCEPT !.info = i]
    /\ resp' = IF i.st = "ok" THEN JsonResult(LibraryMeta(i))
               ELSE AfterLibraryFailure(videoId.id)
    /\ pc' = "done"
    /\ UNCHANGED <<cvars, qvars, dvars, req, platform, videoId, calls, selected, mediaUrl, stvars, clvars>>

\* analyzeTikTok/Instagram/Facebook (aggregation API): the API call settles
AnalyzeApiReply(a) ==
    /\ pc = "rapidapi"
    /\ req.endpoint = "analyze"
    /\ upstream' = [upstream EXCEPT !.api = a]
    /\ resp' = ApiAnalyze(Route(platform), a)
    /\ pc' = "done"
    /\ UNCHANGED <<cvars, qvars, dvars, req, platform, videoId, calls, selected, mediaUrl, stvars, clvars>>

\* analyzeTikTok/Instagram/Facebook (scraping): the page fetch settles
AnalyzePageReply(g) ==
    /\ pc = "page"
    /\ req.endpoint = "analyze"
    /\ upstream' = [upstream EXCEPT !.page = g]
    /\ resp' = PageAnalyze(Route(platform), g)
    /\ pc' = "done"
    /\ UNCHANGED <<cvars, qvars, dvars, req, platform, videoId, calls, selected, mediaUrl, stvars, clvars>>

\* new Response(stream, { headers }): a 200 with the given Content-Length
StreamResponse(h) ==
    [status |-> 200, message |-> "", meta |-> NoMeta, contentLength |-> h]

\* downloadYouTube: ytdl.getInfo settles; the format is selected, the ytdl
\* stream is created and wrapped, and the Response is returned; or the
\* catch block throws
DownloadInfoReply(i) ==
    /\ pc = "ytdl.getInfo"
    /\ req.endpoint = "download"
    /\ upstream' = [upstream EXCEPT !.info = i]
    /\ pc' = "done"
    /\ LET sel == SelectFormat(i.formats, DesiredQuality(req.body)) IN
       IF i.st # "ok"
       THEN /\ resp' = JsonError(500, YouTubeDownloadFailure("getInfo"))
            /\ UNCHANGED <<selected, calls, stvars>>
       ELSE IF sel = 0
       THEN /\ resp' = JsonError(500, YouTubeDownloadFailure(M_NoFormat))
            /\ UNCHANGED <<selected, calls, stvars>>
       ELSE /\ selected' = sel
            /\ calls' = Append(calls, "ytdl.stream")
            /\ resp' = StreamResponse(NoHeader)
            /\ up' = [st |-> "requested", sent |-> 0]
            /\ chan' = [NoChannel EXCEPT !.st = "open"]
    /\ UNCHANGED <<cvars, qvars, dvars, req, platform, videoId, mediaUrl, clvars>>

\* downloadTikTok/Instagram/Facebook (aggregation API): the API call
\* settles; a link is picked and streamVideo fetches it, or the catch block
\* throws
DownloadApiReply(a) ==
    /\ pc = "rapidapi"
    /\ req.endpoint = "download"
    /\ upstream' = [upstream EXCEPT !.api = a]
    /\ LET link == ApiPickLink(Route(platform), a) IN
       IF link = ""
       THEN /\ resp' = JsonError(500, DownloadFailure("api", Route(platform)))
            /\ pc' = "done"
            /\ UNCHANGED <<mediaUrl, calls>>
       ELSE /\ mediaUrl' = link
            /\ calls' = Append(calls, "media")
            /\ pc' = "media"
            /\ resp' = resp
    /\ UNCHANGED <<cvars, qvars, dvars, req, platform, videoId, selected, stvars, clvars>>

\* downloadTikTok/Instagram/Facebook (scraping): the page fetch settles;
\* the patterns are tried and the media URL is fetched, or the catch block
\* throws
DownloadPageReply(g) ==
    /\ pc = "page"
    /\ req.endpoint = "download"
    /\ upstream' = [upstream EXCEPT !.dlpage = g]
    /\ LET link == ScrapeExtract(g) IN
       IF link = ""
       THEN /\ resp' = JsonError(500, DownloadFailure("scrape", Route(platform)))
            /\ pc' = "done"
            /\ UNCHANGED <<mediaUrl, calls>>
       ELSE /\ mediaUrl' = link
            /\ calls' = Append(calls, "media")
            /\ pc' = "media"
            /\ resp' = resp
    /\ UNCHANGED <<cvars, qvars, dvars, req, platform, videoId, selected, stvars, clvars>>

\* streamVideo (and its inlined copies in the scraping downloaders): the
\* media fetch settles; the upstream body becomes the response body, or the
\* catch block throws
MediaReply(m) ==
    /\ pc = "media"
    /\ upstream' = [upstream EXCEPT !.media = m]
    /\ pc' = "done"
    /\ IF m.st = "ok"
       THEN /\ resp' = StreamResponse(ContentLengthHeader(m))
            /\ up' = [st |-> "open", sent |-> 0]
            /\ chan' = [NoChannel EXCEPT !.st = "open"]
       ELSE /\ resp' = JsonError(500, DownloadFailure(strategy, Route(platform)))
            /\ UNCHANGED stvars
    /\ UNCHANGED <<cvars, qvars, dvars, req, platform, videoId, calls, selected, mediaUrl, clvars>>

(***************************************************************************)
(* The YouTube relay: a ReadableStream fed by the events of the ytdl stream *)
(***************************************************************************)
\* controller.enqueue(chunk): a TypeError when the stream is no longer
\* readable (closed, errored or cancelled)
ControllerEnqueue(c) ==
    IF c.st = "open" THEN [c EXCEPT !.queued = @ + 1] ELSE [c EXCEPT !.thrown = TRUE]

\* the error handler closes the stream normally
ControllerError_AsClose(c) ==
    IF c.st = "open" THEN [c EXCEPT !.st = "closed"] ELSE c

\* controller.close(): chunks already queued stay readable; a TypeError
\* when the stream is no longer readable
ControllerClose(c) ==
    IF c.st = "open" THEN [c EXCEPT !.st = "closed"] ELSE [c EXCEPT !.thrown = TRUE]

\* controller.error(err): the queue is dropped, reads reject; ignored when
\* the stream is no longer readable
ControllerError(c) ==
    IF c.st = "open" THEN [c EXCEPT !.st = "errored", !.queued = 0] ELSE c

\* the media request ytdl made for the selected format is answered (or
\* fails): on anything but success the ytdl stream emits "error"
YtMediaReply(m) ==
    /\ Route(platform) = "youtube"
    /\ up.st = "requested"
    /\ upstream' = [upstream EXCEPT !.media = m]
    /\ IF m.st = "ok"
       THEN /\ up' = [up EXCEPT !.st = "open"]
            /\ chan' = chan
       ELSE /\ up' = [up EXCEPT !.st = "failed"]
            /\ chan' = ControllerError(chan)
    /\ UNCHANGED <<cvars, qvars, dvars, req, pc, platform, videoId, calls, selected, mediaUrl, resp, clvars>>

\* videoStream.on("data")
YtData ==
    /\ Route(platform) = "youtube"
    /\ up.st = "open"
    /\ up.sent < MaxChunks
    /\ up' = [up EXCEPT !.sent = @ + 1]
    /\ chan' = ControllerEnqueue(chan)
    /\ UNCHANGED <<cvars, qvars, dvars, hvars, clvars>>

\* videoStream.on("end")
YtEnd ==
    /\ Route(platform) = "youtube"
    /\ up.st = "open"
    /\ up' = [up EXCEPT !.st = "ended"]
    /\ chan' = ControllerClose(chan)
    /\ UNCHANGED <<cvars, qvars, dvars, hvars, clvars>>

\* videoStream.on("error"), the upstream failing in mid-transfer
YtError ==
    /\ Route(platform) = "youtube"
    /\ up.st = "open"
    /\ up' = [up EXCEPT !.st = "failed"]
    /\ chan' = ControllerError(chan)
    /\ UNCHANGED <<cvars, qvars, dvars, hvars, clvars>>

(***************************************************************************)
(* The other relays: new Response(videoResponse.body), the upstream body   *)
(* itself is the response body and is read on demand                       *)
(***************************************************************************)
\* The body of the media answer, as HTTP frames it: with a declared length
\* it holds that many chunks and ends normally only after the last of them
\* (a connection lost before is an error); without, it ends when the
\* upstream closes.
BodyLimit(m) == IF m.len > 0 THEN m.len ELSE MaxChunks

BodyComplete(m, sent) == m.len = 0 \/ sent = m.len

PipeData ==
    /\ Route(platform) # "youtube"
    /\ up.st = "open"
    /\ up.sent < BodyLimit(upstream.media)
    /\ chan.st = "open"
    /\ chan.queued = 0
    /\ up' = [up EXCEPT !.sent = @ + 1]
    /\ chan' = [chan EXCEPT !.queued = @ + 1]
    /\ UNCHANGED <<cvars, qvars, dvars, hvars, clvars>>

PipeEnd ==
    /\ Route(platform) # "youtube"
    /\ up.st = "open"
    /\ BodyComplete(upstream.media, up.sent)
    /\ chan.st = "open"
    /\ up' = [up EXCEPT !.st = "ended"]
    /\ chan' = [chan EXCEPT !.st = "closed"]
    /\ UNCHANGED <<cvars, qvars, dvars, hvars, clvars>>

PipeError ==
    /\ Route(platform) # "youtube"
    /\ up.st = "open"
    /\ chan.st = "open"
    /\ up' = [up EXCEPT !.st = "failed"]
    /\ chan' = [chan EXCEPT !.st = "errored", !.queued = 0]
    /\ UNCHANGED <<cvars, qvars, dvars, hvars, clvars>>

(***************************************************************************)
(* The client's side of a download (video-card.tsx handleDownload after    *)
(* its fetch; another HTTP client reads the same way, without a record)    *)
(***************************************************************************)
\* updateVideo on the record of the page, if the page sent the request
UpdateVideo(v, from, status, progress) ==
    IF from = "ui" THEN [v EXCEPT !.status = status, !.progress = progress] ELSE v

\* the response arrives: !response.ok throws, else the reader is taken
DownloadResponse ==
    /\ req.endpoint = "download"
    /\ rx.pc = "waiting"
    /\ resp.status # 0
    /\ IF resp.status # 200
       THEN /\ rx' = [rx EXCEPT !.pc = "done"]
            /\ video' = UpdateVideo(video, req.from, "error", video.progress)
       ELSE /\ rx' = [rx EXCEPT !.pc = "reading",
                                 !.contentLength = ParseContentLength(resp.contentLength)]
            /\ video' = video
    /\ UNCHANGED <<cvars, qvars, dvars, hvars, stvars>>

\* reader.read() gives a chunk
ClientRead ==
    /\ rx.pc = "reading"
    /\ chan.queued > 0
    /\ chan' = [chan EXCEPT !.queued = @ - 1]
    /\ rx' = [rx EXCEPT !.received = @ + 1]
    /\ video' = IF req.from = "ui" /\ rx.contentLength > 0
                THEN [video EXCEPT !.progress = Progress(rx.received + 1, rx.contentLength)]
                ELSE video
    /\ UNCHANGED <<cvars, qvars, dvars, hvars, up>>

\* the client goes away in mid-transfer (the page itself never cancels:
\* handleDownload holds its reader to the end).  The response body is
\* cancelled; streamVideo's body is the upstream body, so the upstream
\* connection is aborted; downloadYouTube's ReadableStream has no cancel
\* callback, so the ytdl stream is left as it is.
ClientCancel ==
    /\ req.from = "raw"
    /\ rx.pc = "reading"
    /\ rx' = [rx EXCEPT !.pc = "cancelled", !.cut = up.sent]
    /\ chan' = [chan EXCEPT !.st = IF chan.st = "open" THEN "cancelled" ELSE chan.st,
                             !.queued = 0]
    /\ up' = IF Route(platform) # "youtube" /\ up.st = "open"
             THEN [up EXCEPT !.st = "aborted"]
             ELSE up
    /\ UNCHANGED <<cvars, qvars, dvars, hvars, video>>

\* reader.read() gives done: the blob is saved, status completed
ClientReadDone ==
    /\ rx.pc = "reading"
    /\ chan.queued = 0
    /\ chan.st = "closed"
    /\ rx' = [rx EXCEPT !.pc = "done"]
    /\ video' = UpdateVideo(video, req.from, "completed", 100)
    /\ UNCHANGED <<cvars, qvars, dvars, hvars, stvars>>

\* reader.read() rejects: the catch block sets status error
ClientReadError ==
    /\ rx.pc = "reading"
    /\ chan.st = "errored"
    /\ rx' = [rx EXCEPT !.pc = "done"]
    /\ video' = UpdateVideo(video, req.from, "error", video.progress)
    /\ UNCHANGED <<cvars, qvars, dvars, hvars, stvars>>

\* downloadYouTube reads the formats of getInfo's answer, not the duration
DownloadInfoOutcomes == { i \in InfoOutcomes : i.lengthSeconds = 0 }

\* the downloaders read the links of the API's answer, not the title
DownloadApiOutcomes == { a \in ApiOutcomes : a.title = "" }

\* bodies posted to /api/analyze, which reads no quality
AnalyzeBodies == { b \in Bodies : b.quality = "" }

\* bodies posted to /api/download: every kind of body and of url value, one
\* URL per extractor and one without, and a quality with the YouTube URL,
\* whose downloader alone reads it
DownloadUrls == { U_yt_watch, U_tiktok, U_instagram, U_facebook, U_unknown }

DownloadBodies ==
    { b \in Bodies :
        /\ (b.url.type = "string" /\ b.url.chars # <<>>) => b.url.chars \in DownloadUrls
        /\ b.quality # "" => b.url = JsString(U_yt_watch) }

\* the labels a quality list of /api/analyze can hold
QualityLabels == {"1080p", "720p", "480p", "360p", "HD", "SD"}

\* URLs typed into the page
PageUrls == { U_yt_watch, U_yt_upper, U_yt_playlist, U_tiktok, U_facebook, U_unknown }

\* the pages each downloader can be given, by the extractor dispatched to
DlPagesOf ==
    [p \in {"youtube", "tiktok", "instagram", "facebook", "unsupported", "unknown", ""} |->
        DlPageOutcomes(p)]

Next ==
    \/ \E body \in AnalyzeBodies : SendAnalyze(body)
    \/ \E body \in DownloadBodies : SendDownload(body)
    \/ \E url \in PageUrls : HandleAnalyze(url)
    \/ AnalyzeResponse
    \/ \E q \in QualityLabels : HandleQualityChange(q)
    \/ HandleDownload
    \/ POST
    \/ \E o \in OEmbedOutcomes : AnalyzeOEmbedReply(o)
    \/ \E i \in InfoOutcomes : AnalyzeInfoReply(i)
    \/ \E a \in ApiOutcomes : AnalyzeApiReply(a)
    \/ \E g \in PageOutcomes : AnalyzePageReply(g)
    \/ \E i \in DownloadInfoOutcomes : DownloadInfoReply(i)
    \/ \E a \in DownloadApiOutcomes : DownloadApiReply(a)
    \/ \E g \in DlPagesOf[Route(platform)] : DownloadPageReply(g)
    \/ \E m \in MediaOutcomes : MediaReply(m)
    \/ \E m \in YtMediaOutcomes : YtMediaReply(m)
    \/ YtData
    \/ YtEnd
    \/ YtError
    \/ PipeData
    \/ PipeEnd
    \/ PipeError
    \/ DownloadResponse
    \/ ClientRead
    \/ ClientReadDone
    \/ ClientReadError
    \/ ClientCancel

Spec == Init /\ [][Next]_vars

\* The same system with the scheduling the runtime guarantees: a handler
\* that has been invoked runs (POST).  Nothing obliges an upstream to
\* answer, or a client to read, and no step of the handlers ends a wait:
\* no fetch is given a signal or a timeout, and no route sets a timer.
SpecFair == Init /\ [][Next]_vars /\ WF_vars(POST)

(***************************************************************************)
(* Queue specification: the page's store (store.ts) under the clicks and   *)
(* key presses the rendered page allows (url-input.tsx, video-card.tsx)    *)
(* and the settling of the requests it has sent.  The server is whatever   *)
(* answers: an analysis succeeds with some list of qualities or fails, a   *)
(* download fails, or streams chunks and then ends or breaks.              *)
(***************************************************************************)
\* const maxVideos = 5
maxVideos == 5

\* number of videos added to the queue in one behaviour
MaxAdds == 2

QueueUrls == { U_yt_watch, U_tiktok, U_unknown, <<>> }

\* addVideo: a record in status pending is appended.  `trail` is the list
\* of the values `status` has been given, kept for the claims.
addVideo(vs, id, url) ==
    Append(vs, [id |-> id, url |-> url, platform |-> storeDetectPlatform(url),
                qualities |-> <<>>, selectedQuality |-> "720p",
                status |-> "pending", progress |-> 0, trail |-> <<"pending">>])

\* { ...v, ...updates, progress: 0 }
Merge_ResetProgress(v, updates) ==
    [f \in DOMAIN v |->
        IF f = "trail"
        THEN IF "status" \in DOMAIN updates THEN Append(v.trail, updates.status) ELSE v.trail
        ELSE IF f \in DOMAIN updates THEN updates[f]
        ELSE IF f = "progress" THEN 0 ELSE v[f]]

\* { ...v, ...updates }
Merge(v, updates) ==
    [f \in DOMAIN v |->
        IF f = "trail"
        THEN IF "status" \in DOMAIN updates THEN Append(v.trail, updates.status) ELSE v.trail
        ELSE IF f \in DOMAIN updates THEN updates[f] ELSE v[f]]

\* an update for an id that is not in the queue appends a record
updateVideo_Upsert(vs, id, updates) ==
    IF \E i \in 1..Len(vs) : vs[i].id = id
    THEN [i \in 1..Len(vs) |-> IF vs[i].id = id THEN Merge(vs[i], updates) ELSE vs[i]]
    ELSE Append(vs, Merge(addVideo(<<>>, id, <<>>)[1], updates))

\* updateVideo: the record with that id, if there is one, is merged with
\* the updates
updateVideo(vs, id, updates) ==
    [i \in 1..Len(vs) |-> IF vs[i].id = id THEN Merge(vs[i], updates) ELSE vs[i]]

IdIsNot(id, v) == v.id # id

NotCompleted(v) == v.status # "completed"

RECURSIVE Filter(_, _, _)
\* Array.prototype.filter with the predicates of store.ts
Filter(vs, keep, id) ==
    IF vs = <<>> THEN <<>>
    ELSE LET rest == Filter(Tail(vs), keep, id)
             kept == IF keep = "idIsNot" THEN IdIsNot(id, Head(vs)) ELSE NotCompleted(Head(vs))
         IN  IF kept THEN <<Head(vs)>> \o rest ELSE rest

\* removeVideo
removeVideo(vs, id) == Filter(vs, "idIsNot", id)

\* clearCompleted
clearCompleted(vs) == Filter(vs, "notCompleted", 0)

\* the Download button is rendered whatever the status
isReady_Always(v) == TRUE

\* video-card.tsx: const isReady = video.status === "ready"; the quality
\* select and the Download button are rendered only then
isReady(v) == v.status = "ready"

\* video-card.tsx's state isDownloading of the card of `id`: true from the
\* start of handleDownload to its finally block
isDownloading(id) == \E r \in inflight : r.kind = "download" /\ r.id = id

\* a request of the page not yet settled.  `late` counts the progress
\* reports it has made for a record no longer in the queue, kept for the
\* claims.
Request(kind, id) ==
    [kind |-> kind, id |-> id, stage |-> "sent", len |-> 0, received |-> 0, late |-> 0]

\* what /api/analyze answers, as the page sees it: a failure (a status that
\* is not ok, or a body handleAnalyze cannot use), or metadata
AnalyzeAnswers ==
    { [ok |-> FALSE, qualities |-> <<>>] }
        \cup { [ok |-> TRUE, qualities |-> q] : q \in { <<"HD", "SD">> } }

\* the queue never counts as full
QueueFull_Never(vs) == FALSE

\* videos.length >= maxVideos
QueueFull(vs) == Len(vs) >= maxVideos

\* no URL counts as queued
InQueue_Never(vs, url) == FALSE

\* videos.some((v) => v.url === url)
InQueue(vs, url) == \E i \in 1..Len(vs) : vs[i].url = url

InitQueue ==
    /\ input = <<>>
    /\ tag = "none"
    /\ uiTag = "none"
    /\ Unnamed
    /\ strategy = "api"
    /\ envKey = ""
    /\ ServerIdle
    /\ QueueEmpty

\* handleAnalyze (the Analyze button, or Enter through handleKeyDown) up
\* to its fetch
ClickAnalyze(url) ==
    /\ ~isAnalyzing
    /\ url # <<>>
    /\ storeDetectPlatform(url) # "unknown"
    /\ ~QueueFull(videos)
    /\ ~InQueue(videos, url)
    /\ videos' = updateVideo(addVideo(videos, nextId, url), nextId, [status |-> "analyzing"])
    /\ nextId' = nextId + 1
    /\ isAnalyzing' = TRUE
    /\ inflight' = inflight \cup { Request("analyze", nextId) }
    /\ UNCHANGED <<cvars, svars>>

\* handleAnalyze after its fetch
AnalyzeSettled(r, a) ==
    /\ r \in inflight
    /\ r.kind = "analyze"
    /\ videos' =
         IF a.ok
         THEN updateVideo(videos, r.id,
                  [qualities |-> a.qualities,
                   selectedQuality |-> DefaultQuality(a.qualities),
                   status |-> "ready"])
         ELSE updateVideo(videos, r.id, [status |-> "error"])
    /\ isAnalyzing' = FALSE
    /\ inflight' = inflight \ {r}
    /\ UNCHANGED <<cvars, svars, nextId>>

\* handleDownload (the Download button of a card) up to its fetch
ClickDownload(id) ==
    /\ \E i \in 1..Len(videos) : videos[i].id = id /\ isReady(videos[i])
    /\ ~isDownloading(id)
    /\ videos' = updateVideo(videos, id, [status |-> "downloading", progress |-> 0])
    /\ inflight' = inflight \cup { Request("download", id) }
    /\ UNCHANGED <<cvars, svars, nextId, isAnalyzing>>

\* handleDownload: the response arrives; a status that is not ok throws,
\* else the reader is taken and the Content-Length parsed
DownloadAnswered(r, ok, len) ==
    /\ r \in inflight
    /\ r.kind = "download"
    /\ r.stage = "sent"
    /\ IF ok
       THEN /\ inflight' = (inflight \ {r}) \cup { [r EXCEPT !.stage = "reading", !.len = len] }
            /\ videos' = videos
       ELSE /\ inflight' = inflight \ {r}
            /\ videos' = updateVideo(videos, r.id, [status |-> "error"])
    /\ UNCHANGED <<cvars, svars, nextId, isAnalyzing>>

\* handleDownload: reader.read() gives a chunk
DownloadChunk(r) ==
    /\ r \in inflight
    /\ r.stage = "reading"
    /\ r.received < BodyLimit(r)
    /\ inflight' =
         (inflight \ {r}) \cup
             { [r EXCEPT !.received = @ + 1,
                         !.late = IF r.len > 0 /\ ~\E i \in 1..Len(videos) : videos[i].id = r.id
                                  THEN @ + 1 ELSE @] }
    /\ videos' = IF r.len > 0
                 THEN updateVideo(videos, r.id, [progress |-> Progress(r.received + 1, r.len)])
                 ELSE videos
    /\ UNCHANGED <<cvars, svars, nextId, isAnalyzing>>

\* handleDownload: reader.read() gives done
DownloadDone(r) ==
    /\ r \in inflight
    /\ r.stage = "reading"
    /\ BodyComplete(r, r.received)
    /\ inflight' = inflight \ {r}
    /\ videos' = updateVideo(videos, r.id, [status |-> "completed", progress |-> 100])
    /\ UNCHANGED <<cvars, svars, nextId, isAnalyzing>>

\* handleDownload: reader.read() rejects
DownloadBroken(r) ==
    /\ r \in inflight
    /\ r.stage = "reading"
    /\ inflight' = inflight \ {r}
    /\ videos' = updateVideo(videos, r.id, [status |-> "error"])
    /\ UNCHANGED <<cvars, svars, nextId, isAnalyzing>>

\* the remove button of a card; the card, and with it its state, is gone
ClickRemove(id) ==
    /\ \E i \in 1..Len(videos) : videos[i].id = id
    /\ videos' = removeVideo(videos, id)
    /\ UNCHANGED <<cvars, svars, nextId, isAnalyzing, inflight>>

\* the "Clear completed" button, rendered when a record is completed
ClickClearCompleted ==
    /\ \E i \in 1..Len(videos) : videos[i].status = "completed"
    /\ videos' = clearCompleted(videos)
    /\ UNCHANGED <<cvars, svars, nextId, isAnalyzing, inflight>>

\* handleQualityChange, from the select of a card
SelectQuality(id, q) ==
    /\ \E i \in 1..Len(videos) :
          /\ videos[i].id = id
          /\ isReady(videos[i])
          /\ \E k \in 1..Len(videos[i].qualities) : videos[i].qualities[k] = q
          /\ videos[i].selectedQuality # q
    /\ videos' = updateVideo(videos, id, [selectedQuality |-> q])
    /\ UNCHANGED <<cvars, svars, nextId, isAnalyzing, inflight>>

NextQueue ==
    \/ \E url \in QueueUrls : nextId <= MaxAdds /\ ClickAnalyze(url)
    \/ \E r \in inflight, a \in AnalyzeAnswers : AnalyzeSettled(r, a)
    \/ \E id \in 1..MaxAdds : ClickDownload(id)
    \/ \E r \in inflight, ok \in BOOLEAN, len \in {0, MaxChunks} : DownloadAnswered(r, ok, len)
    \/ \E r \in inflight : DownloadChunk(r)
    \/ \E r \in inflight : DownloadDone(r)
    \/ \E r \in inflight : DownloadBroken(r)
    \/ \E id \in 1..MaxAdds : ClickRemove(id)
    \/ ClickClearCompleted
    \/ \E id \in 1..MaxAdds, q \in {"HD", "SD"} : SelectQuality(id, q)

SpecQueue == InitQueue /\ [][NextQueue]_vars

(***************************************************************************)
(* Fill specification: the queue under enough submissions to fill it: one  *)
(* more than it holds.  Of the page's operations it has those that add to  *)
(* the queue or take from it while an analysis may be in flight; a         *)
(* download never changes the number of records.                           *)
(***************************************************************************)
\* number of videos added to the queue in one behaviour
MaxFill == maxVideos + 1

\* the addresses typed into the page, all supported, in the order of their
\* first use: the n-th video added has one of the first n of them (any
\* other choice is the same behaviour with the addresses renamed)
FillUrls ==
    <<U_yt_watch, U_tiktok, U_instagram, U_facebook, U_yt_short, U_yt_shorts, U_yt_upper>>

NextFill ==
    \/ \E k \in 1..Len(FillUrls) :
          k <= nextId /\ nextId <= MaxFill /\ ClickAnalyze(FillUrls[k])
    \/ \E r \in inflight, a \in AnalyzeAnswers : AnalyzeSettled(r, a)
    \/ \E id \in 1..MaxFill : ClickRemove(id)

SpecFill == InitQueue /\ [][NextFill]_vars

(***************************************************************************)
(* Filename specification: the name a downloader puts into the             *)
(* Content-Disposition header of its response, and the name handleDownload *)
(* takes from that header for the file it saves.                           *)
(***************************************************************************)
\* longest title of a video, but for the two long ones
MaxTitle == 3

\* .substring(0, 50)
NameLimit == 50

TitleChars == {"a", "7", "_", " ", "-", ".", "/", "\""}

\* titles longer than the limit: word characters only, and with a
\* character that is removed among them
LongTitles ==
    { [i \in 1..(NameLimit + 10) |-> "a"],
      [i \in 1..(NameLimit + 10) |-> IF i = 10 THEN "/" ELSE "a"] }

Titles == SeqsUpTo(TitleChars, MaxTitle) \cup LongTitles

Sources ==
    { [platform |-> "youtube", title |-> t] : t \in Titles }
        \cup { [platform |-> p, title |-> <<>>] : p \in {"tiktok", "instagram", "facebook"} }

\* the class [\w\s-]
IsNameChar(c) == IsWordDash(c) \/ c \in {" ", "\t", "\n", "\r"}

P_mp4       == <<".","m","p","4">>
P_attach    == <<"a","t","t","a","c","h","m","e","n","t",";"," ">>
P_filename  == <<"f","i","l","e","n","a","m","e","=">>
P_quote     == <<"\"">>
P_underVideo == <<"_","v","i","d","e","o">>

\* the platform's name that the fixed file names start with
PlatformWord(p) ==
    CASE p = "tiktok"    -> <<"t","i","k","t","o","k">>
      [] p = "instagram" -> <<"i","n","s","t","a","g","r","a","m">>
      [] OTHER           -> <<"f","a","c","e","b","o","o","k">>

\* the `filename` of a downloader: title.replace(/[^\w\s-]/g, "")
\* .substring(0, 50) + ".mp4" for YouTube, a fixed name for the others
ServerFilename(src) ==
    IF src.platform = "youtube"
    THEN LET kept == SelectSeq(src.title, IsNameChar)
         IN  SubSeq(kept, 1, IF Len(kept) > NameLimit THEN NameLimit ELSE Len(kept)) \o P_mp4
    ELSE PlatformWord(src.platform) \o P_underVideo \o P_mp4

\* "Content-Disposition": `attachment; filename="${filename}"`
DispositionHeader(name) == P_attach \o P_filename \o P_quote \o name \o P_quote

\* the characters the regex dot does not match
LineEnds == {"\n", "\r"}

\* last index of the greedy run (.+) that starts at j
DotRunEnd(s, j) ==
    CHOOSE e \in j..Len(s) :
        /\ \A k \in j..e : s[k] \notin LineEnds
        /\ (e = Len(s) \/ s[e + 1] \in LineEnds)

\* contentDisposition.match(/filename="?(.+)"?/): the leftmost match and its
\* capture group 1.  The quote after `=` is taken when a character follows
\* it; the group then runs to the end of the line, a closing quote
\* included, and the final "? matches the empty string.
MatchFilename(h) ==
    LET n      == Len(P_filename)
        starts == { i \in 1..Len(h) :
                      /\ MatchAt(P_filename, h, i)
                      /\ i + n <= Len(h)
                      /\ h[i + n] \notin LineEnds }
    IN  IF starts = {} THEN [found |-> FALSE, name |-> <<>>]
        ELSE LET i == CHOOSE x \in starts : \A y \in starts : x <= y
                 j == i + n
                 g == IF /\ h[j] = "\""
                         /\ j + 1 <= Len(h)
                         /\ h[j + 1] \notin LineEnds
                      THEN j + 1 ELSE j
             IN  [found |-> TRUE, name |-> SubSeq(h, g, DotRunEnd(h, g))]

P_video == <<"v","i","d","e","o">>

\* handleDownload: the filename from the header, else `${video.title ||
\* "video"}.mp4`
ClientFilename(h, title) ==
    IF h # <<>> /\ MatchFilename(h).found THEN MatchFilename(h).name
    ELSE (IF title # <<>> THEN title ELSE P_video) \o P_mp4

InitFilename ==
    /\ input = <<>>
    /\ tag = "none"
    /\ uiTag = "none"
    /\ source \in Sources
    /\ contentDisposition = <<>>
    /\ filename = <<>>
    /\ strategy = "api"
    /\ envKey = ""
    /\ ServerIdle
    /\ QueueEmpty

\* a downloader returns its Response
NameResponse ==
    /\ contentDisposition = <<>>
    /\ contentDisposition' = DispositionHeader(ServerFilename(source))
    /\ UNCHANGED <<input, tag, uiTag, source, filename, svars, qvars>>

\* handleDownload names the file it saves
SaveAs ==
    /\ contentDisposition # <<>>
    /\ filename = <<>>
    /\ filename' = ClientFilename(contentDisposition, source.title)
    /\ UNCHANGED <<input, tag, uiTag, source, contentDisposition, svars, qvars>>

NextFilename == NameResponse \/ SaveAs

SpecFilename == InitFilename /\ [][NextFilename]_vars

(***************************************************************************)
(* C5                                                                      *)
(***************************************************************************)
\* the lower-cased input holds the literal p as a substring
Has(p, s) ==
    \E i \in 1..(Len(s) - Len(p) + 1) :
        SubSeq(LowerSeq(s), i, i + Len(p) - 1) = p

IsYouTubeUrl(s)   == Has(P_youtube_com, s) \/ Has(P_youtu_be, s)
IsTikTokUrl(s)    == Has(P_tiktok_com, s)
IsInstagramUrl(s) == Has(P_instagram_com, s)
IsFacebookUrl(s)  == Has(P_facebook_com, s) \/ Has(P_fb_watch, s)

\* C5: the classifier returns exactly one tag for every input, the tag of
\* the first rule that matches in the order youtube, tiktok, instagram,
\* facebook/fb.watch, matching without regard to case; unknown exactly when
\* no rule matches.
C5_FirstMatchingRule ==
    tag # "none" =>
        /\ tag \in Platforms
        /\ (tag = "youtube")   = IsYouTubeUrl(input)
        /\ (tag = "tiktok")    = (~IsYouTubeUrl(input) /\ IsTikTokUrl(input))
        /\ (tag = "instagram") = (/\ ~IsYouTubeUrl(input)
                                  /\ ~IsTikTokUrl(input)
                                  /\ IsInstagramUrl(input))
        /\ (tag = "facebook")  = (/\ ~IsYouTubeUrl(input)
                                  /\ ~IsTikTokUrl(input)
                                  /\ ~IsInstagramUrl(input)
                                  /\ IsFacebookUrl(input))
        /\ (tag = "unknown")   = (/\ ~IsYouTubeUrl(input)
                                  /\ ~IsTikTokUrl(input)
                                  /\ ~IsInstagramUrl(input)
                                  /\ ~IsFacebookUrl(input))

\* a mixed-case URL matching both the tiktok and the youtube rule was
\* classified, and got the earlier platform
C5_Witness ==
    /\ tag = "youtube"
    /\ IsTikTokUrl(input)
    /\ input # LowerSeq(input)

(***************************************************************************)
(* Shorthands for the claims                                               *)
(***************************************************************************)
IsAnalyze  == req.endpoint = "analyze"
IsDownload == req.endpoint = "download"

\* the request body is a JSON object whose url is a non-empty string
HasUrl == req.body.kind = "object" /\ ~UrlRejected(req.body.url)

ReqUrl == req.body.url.chars

OEmbedFailed == upstream.oembed.st \in {"throw", "notok", "badjson", "nulljson"}

(***************************************************************************)
(* C1                                                                      *)
(***************************************************************************)
\* C1: when the upstream media fetch of a download answers a non-success
\* status, the request has answered 500 and no success status and no body
\* byte has gone to the client.
C1_MediaFailureIs500 ==
    (IsDownload /\ upstream.media.st = "notok") =>
        /\ resp.status = 500
        /\ chan.st = "none"
        /\ rx.received = 0

(***************************************************************************)
(* C2                                                                      *)
(***************************************************************************)
\* C2: once the upstream has failed after the streaming response was
\* returned, the response body is never closed normally: it is errored,
\* unless the client had gone away before the failure.  The client's record
\* is never completed: when the client is done with the request the record
\* is in status error.
C2_MidStreamErrorSignalled ==
    (IsDownload /\ resp.status = 200 /\ up.st = "failed") =>
        /\ chan.st # "closed"
        /\ rx.pc # "cancelled" => chan.st = "errored"
        /\ video.status # "completed"
        /\ (rx.pc = "done" /\ req.from = "ui") => video.status = "error"

\* a YouTube download of the page whose upstream failed after a chunk had
\* been received, and whose record ended in error
C2_Witness ==
    /\ IsDownload
    /\ req.from = "ui"
    /\ Route(platform) = "youtube"
    /\ up.st = "failed"
    /\ rx.received > 0
    /\ rx.pc = "done"
    /\ video.status = "error"

(***************************************************************************)
(* C3                                                                      *)
(***************************************************************************)
\* C3: a request whose URL classifies as unknown issues no upstream call,
\* and its response, on either endpoint, is a 400.
C3_UnknownIs400 ==
    (req.endpoint # "none" /\ req.body.kind = "object"
        /\ req.body.url.type = "string" /\ detectPlatform(ReqUrl) = "unknown") =>
        /\ calls = <<>>
        /\ resp.status \in {0, 400}
        /\ pc = "done" => resp.status = 400

\* a download of https://example.com/video was answered
C3_Witness ==
    /\ IsDownload
    /\ HasUrl
    /\ ReqUrl = U_unknown
    /\ pc = "done"
    /\ resp = JsonError(400, M_UnsupportedD)

(***************************************************************************)
(* C4                                                                      *)
(***************************************************************************)
\* C4: a request whose body is malformed or not an object, or whose url is
\* absent, empty or not a string, is answered 400 and reaches no extractor.
C4_InvalidInputIs400 ==
    (req.endpoint # "none" /\ pc = "done" /\ ~HasUrl) =>
        /\ resp.status = 400
        /\ calls = <<>>

(***************************************************************************)
(* C6                                                                      *)
(***************************************************************************)
\* C6: every 200 response of /api/analyze carries a non-empty qualities
\* list.
C6_QualitiesNonEmpty ==
    (IsAnalyze /\ resp.status = 200) => Len(resp.meta.qualities) > 0

\* the library fallback found no labelled format and the default list was
\* substituted
C6_Witness ==
    /\ IsAnalyze
    /\ resp.status = 200
    /\ upstream.info.st = "ok"
    /\ \A i \in 1..Len(upstream.info.formats) : upstream.info.formats[i] = ""
    /\ resp.meta.qualities = <<"720p", "360p">>

FixedQualities == <<"1080p", "720p", "480p", "360p">>

\* C8 as stated, the part that fails: when oEmbed succeeds the response
\* carries the title oEmbed gave.
C8_OEmbedTitleVerbatim ==
    (IsAnalyze /\ pc = "done" /\ upstream.oembed.st = "ok") =>
        resp.meta.title = upstream.oembed.title

\* C8 as amended: the strategies run in the order oEmbed, library, stub.
\* When oEmbed succeeds the library is never called and the response has
\* the oEmbed title (the default "YouTube Video" when oEmbed gave none or
\* an empty one), duration 0 and the fixed qualities; the library is
\* called only after oEmbed failed; the stub is returned only after both
\* failed.
C8_StrategyOrder ==
    (IsAnalyze /\ platform = "youtube") =>
        /\ calls \in { <<>>, <<"oembed">>, <<"oembed", "ytdl.getInfo">> }
        /\ (\E k \in 1..Len(calls) : calls[k] = "ytdl.getInfo") => OEmbedFailed
        /\ upstream.oembed.st = "ok" =>
              /\ calls = <<"oembed">>
              /\ resp.status = 200
              /\ resp.meta.title = IF upstream.oembed.title # ""
                                   THEN upstream.oembed.title ELSE "YouTube Video"
              /\ resp.meta.duration = 0
              /\ resp.meta.qualities = FixedQualities
        /\ (resp.status = 200 /\ resp.meta.thumbnail.kind = "hqdefault") =>
              /\ OEmbedFailed
              /\ upstream.info.st = "throw"
              /\ calls = <<"oembed", "ytdl.getInfo">>

\* oEmbed succeeded with a title and the response carries it
C8_Witness ==
    /\ IsAnalyze
    /\ pc = "done"
    /\ upstream.oembed = [st |-> "ok", title |-> "T_oembed"]
    /\ calls = <<"oembed">>
    /\ resp.meta.title = "T_oembed"

(***************************************************************************)
(* C9                                                                      *)
(***************************************************************************)
\* C9: in a YouTube download whose format list is non-empty, the selected
\* format is the first whose label equals the desired quality (720p when
\* the body has none), the first of the list when no label equals it, and
\* the response is a 200 either way.
C9_FormatSelection ==
    (IsDownload /\ platform = "youtube" /\ upstream.info.st = "ok"
        /\ Len(upstream.info.formats) > 0) =>
        LET f == upstream.info.formats
            q == IF req.body.quality = "" THEN "720p" ELSE req.body.quality
        IN  /\ resp.status = 200
            /\ selected \in 1..Len(f)
            /\ (\E i \in 1..Len(f) : f[i] = q) =>
                  /\ f[selected] = q
                  /\ \A j \in 1..(selected - 1) : f[j] # q
            /\ (\A i \in 1..Len(f) : f[i] # q) => selected = 1

\* a quality no format has was asked for, and the first format of the list
\* was taken
C9_Witness ==
    /\ IsDownload
    /\ platform = "youtube"
    /\ req.body.quality = "4K"
    /\ upstream.info.st = "ok"
    /\ upstream.info.formats = <<"360p", "720p">>
    /\ selected = 1
    /\ resp.status = 200

(***************************************************************************)
(* C10                                                                     *)
(***************************************************************************)
\* C10: a YouTube download whose combined format list is empty fails with
\* the no-format error, which differs from the platform-blocked error.
C10_NoFormatReported ==
    (IsDownload /\ platform = "youtube" /\ pc = "done"
        /\ upstream.info.st = "ok" /\ upstream.info.formats = <<>>) =>
        /\ resp.status = 500
        /\ resp.message = M_NoFormat
        /\ resp.message # M_YouTubeBlocked

(***************************************************************************)
(* C11                                                                     *)
(***************************************************************************)
Relayed == {"tiktok", "instagram", "facebook"}

\* C11: under the aggregation-API strategy, once the API has answered a
\* tiktok, instagram or facebook download with a non-empty list of links,
\* the media URL is the link of the first entry tagged hd when there is
\* one, and the link of the first entry otherwise.
C11_HdLinkPreferred ==
    (IsDownload /\ strategy = "api" /\ Route(platform) \in Relayed
        /\ upstream.api.st = "ok" /\ upstream.api.hasLinks
        /\ Len(upstream.api.links) > 0) =>
        LET l  == upstream.api.links
            hd == { i \in 1..Len(l) : l[i].quality = "hd" }
        IN  mediaUrl = IF hd # {} THEN l[CHOOSE i \in hd : \A j \in hd : i <= j].link
                       ELSE l[1].link

(***************************************************************************)
(* C12                                                                     *)
(***************************************************************************)
\* the order of the patterns as the claim gives it
C12_Order(p) ==
    CASE p = "tiktok"    -> <<"SIGI_STATE", "UNIVERSAL_DATA", "playAddr", "og:video">>
      [] p = "instagram" -> <<"og:video", "contentUrl", "video_url">>
      [] p = "facebook"  -> <<"hd_src", "sd_src", "og:video">>

NoPatternYields ==
    /\ strategy = "scrape"
    /\ upstream.dlpage.st = "ok"
    /\ \A k \in 1..Len(upstream.dlpage.yields) :
          upstream.dlpage.yields[k] \in {"miss", "void", ""}

\* the aggregation API answered without links
NoLinkReturned ==
    /\ strategy = "api"
    /\ upstream.api.st = "ok"
    /\ ~upstream.api.isNull
    /\ (~upstream.api.hasLinks \/ upstream.api.links = <<>>)

\* C13: a tiktok, instagram or facebook download for which no pattern
\* yields an address (scraping) or no link is returned (aggregation API) is
\* answered 500 with the message of that platform's downloader, which no
\* other platform's downloader gives, and no media fetch is issued.
C13_PlatformHintNoFetch ==
    (IsDownload /\ Route(platform) \in Relayed /\ (NoPatternYields \/ NoLinkReturned)) =>
        /\ pc = "done"
        /\ resp.status = 500
        /\ resp.message = DownloadFailure(strategy, Route(platform))
        /\ \A q \in Relayed \ {Route(platform)} :
              resp.message # DownloadFailure(strategy, q)
        /\ \A k \in 1..Len(calls) : calls[k] # "media"
        /\ mediaUrl = ""
        /\ up.st = "none"

\* an Instagram page on which nothing matched
C13_Witness ==
    /\ IsDownload
    /\ Route(platform) = "instagram"
    /\ NoPatternYields
    /\ upstream.dlpage.yields = <<"miss", "miss", "miss">>
    /\ resp.status = 500
    /\ resp.message = "Failed to download Instagram video. It may require login or be private."

(***************************************************************************)
(* C14                                                                     *)
(***************************************************************************)
\* C14: after the client has cancelled the response stream of a download,
\* the upstream is closed, not open, and no chunk has been read from it
\* since the cancel.
C14_CancelAbortsUpstream ==
    (IsDownload /\ rx.pc = "cancelled") =>
        /\ up.st \in {"aborted", "ended", "failed"}
        /\ up.sent = rx.cut

(***************************************************************************)
(* C15                                                                     *)
(***************************************************************************)
\* C15: the relay never holds more than one chunk read from upstream and
\* not yet taken by the client (one chunk is the high-water mark of the
\* response stream's queue).
C15_BoundedBuffer == IsDownload => chan.queued <= 1

(***************************************************************************)
(* C16                                                                     *)
(***************************************************************************)
\* C16: every request that has arrived is eventually answered, whether or
\* not the upstreams it calls ever answer.
C16_EveryRequestAnswered == (pc = "arrived") ~> (resp.status # 0)

(***************************************************************************)
(* C17                                                                     *)
(***************************************************************************)
\* C17: a streaming download response carries a Content-Length equal to the
\* upstream's when the media answer has one, and no Content-Length header
\* when it has none.
C17_ContentLengthPropagated ==
    (IsDownload /\ resp.status = 200 /\ upstream.media.st = "ok") =>
        IF upstream.media.len > 0
        THEN resp.contentLength =
                [present |-> TRUE, digits |-> TRUE, value |-> upstream.media.len]
        ELSE ~resp.contentLength.present

(***************************************************************************)
(* C18                                                                     *)
(***************************************************************************)
Edges ==
    { <<"pending", "analyzing">>, <<"analyzing", "ready">>, <<"analyzing", "error">>,
      <<"ready", "downloading">>, <<"downloading", "completed">>,
      <<"downloading", "error">> }

\* C18: the statuses every record of the queue has been given start with
\* pending, and each one follows the one before along pending->analyzing,
\* analyzing->ready, analyzing->error, ready->downloading,
\* downloading->completed or downloading->error, whatever the order of the
\* clicks, key presses and settled requests.
C18_StatusEdges ==
    \A i \in 1..Len(videos) :
        LET t == videos[i].trail
        IN  /\ t[1] = "pending"
            /\ t[Len(t)] = videos[i].status
            /\ \A k \in 1..(Len(t) - 1) : <<t[k], t[k + 1]>> \in Edges

\* one record went all the way to completed while the next one was being
\* analyzed
C18_Witness ==
    /\ Len(videos) = 2
    /\ videos[1].trail = <<"pending", "analyzing", "ready", "downloading", "completed">>
    /\ videos[2].trail = <<"pending", "analyzing">>
    /\ isAnalyzing

(***************************************************************************)
(* C19                                                                     *)
(***************************************************************************)
\* C19: when the page marks a download completed, it has received every
\* chunk the upstream sent, as many as the upstream's Content-Length
\* declared when it declared one, and progress is 100; while the download
\* runs, progress stays within 0..100 and never decreases.
C19_ByteCountAndProgress ==
    /\ [](IsDownload /\ req.from = "ui" /\ video.status = "completed" =>
            /\ rx.received = up.sent
            /\ upstream.media.len > 0 =>
                  /\ rx.received = upstream.media.len
                  /\ rx.contentLength = upstream.media.len
            /\ video.progress = 100)
    /\ [](video.progress \in 0..100)
    /\ [][(video.status = "downloading" /\ video'.status \in {"downloading", "completed"})
             => video'.progress >= video.progress]_vars

\* a download of two chunks, declared as such, completed
C19_Witness ==
    /\ IsDownload
    /\ req.from = "ui"
    /\ upstream.media.len = 2
    /\ rx.contentLength = 2
    /\ rx.received = 2
    /\ video.status = "completed"
    /\ video.progress = 100

(***************************************************************************)
(* C20                                                                     *)
(***************************************************************************)
\* C20: with no RAPIDAPI_KEY in the environment, a tiktok, instagram or
\* facebook request under the aggregation-API strategy sends nothing to
\* the aggregation service and is answered with an error.
C20_MissingKeyFails ==
    (strategy = "api" /\ envKey = "" /\ req.endpoint # "none"
        /\ Route(platform) \in Relayed) =>
        /\ \A k \in 1..Len(calls) : calls[k] # "rapidapi"
        /\ pc = "done"
        /\ resp.status = 500

(***************************************************************************)
(* C21                                                                     *)
(***************************************************************************)
\* C21: a tiktok download never fetches its media from the address that was
\* submitted: whatever the aggregation API or the page gave, a media fetch
\* is issued only for an address other than that of the page, and a 200
\* response streams the answer of such an address.
C21_NeverStreamsThePage ==
    (IsDownload /\ Route(platform) = "tiktok") =>
        /\ (\E k \in 1..Len(calls) : calls[k] = "media") => mediaUrl \notin {"", PageAddress}
        /\ resp.status = 200 => mediaUrl \notin {"", PageAddress}

(***************************************************************************)
(* C22                                                                     *)
(***************************************************************************)
\* C22: the YouTube relay never calls enqueue or close on a controller
\* whose stream is closed, errored or cancelled, in any order of the ytdl
\* stream's data, end and error events and of the client's cancel: no call
\* on the controller throws in a listener of the ytdl stream.
C22_NoCallOnDeadController == IsDownload => ~chan.thrown

(***************************************************************************)
(* C23                                                                     *)
(***************************************************************************)
\* C23: a URL the page's classifier tags with a supported platform gets the
\* same tag from the server's classifier.
C23_ClassifiersAgree ==
    (uiTag \notin {"none", "unknown"} /\ tag # "none") => tag = uiTag

(***************************************************************************)
(* C24                                                                     *)
(***************************************************************************)
\* C24: under the aggregation-API strategy, a tiktok, instagram or facebook
\* analysis is answered 200 only when the API's answer holds a link with a
\* non-empty address, and then the downloader of that platform finds a
\* link to stream in the same answer.
C24_ReadyImpliesLink ==
    (IsAnalyze /\ strategy = "api" /\ Route(platform) \in Relayed /\ resp.status = 200) =>
        /\ upstream.api.hasLinks
        /\ \E i \in 1..Len(upstream.api.links) : upstream.api.links[i].link # ""
        /\ ApiPickLink(Route(platform), upstream.api) # ""

(***************************************************************************)
(* C25                                                                     *)
(***************************************************************************)
\* C25: the queue never holds more than 5 videos, whatever the order of
\* submissions, settled analyses and removals; records in status error
\* count.
C25_QueueAtMostFive == Len(videos) <= 5

\* the queue is full, one of its records is in error, the page is idle and
\* a sixth address has not been used yet
C25_Witness ==
    /\ Len(videos) = 5
    /\ \E i \in 1..5 : videos[i].status = "error"
    /\ ~isAnalyzing
    /\ nextId = 6

(***************************************************************************)
(* C26                                                                     *)
(***************************************************************************)
\* the record of `id` is in the queue
Queued(vs, id) == \E i \in 1..Len(vs) : vs[i].id = id

\* C26: no two records of the queue have the same URL or the same id,
\* whatever the order of submissions, settled requests and removals; and
\* the settling of an analysis, failed or not, leaves its record in the
\* queue with its URL, so that a failed URL is refused until it is removed.
C26_NoDuplicates ==
    /\ [](\A i, j \in 1..Len(videos) :
            i # j => (videos[i].url # videos[j].url /\ videos[i].id # videos[j].id))
    /\ [][\A r \in inflight :
            (r.kind = "analyze" /\ r \notin inflight' /\ Queued(videos, r.id)) =>
                \E i \in 1..Len(videos) :
                    /\ videos[i].id = r.id
                    /\ i <= Len(videos')
                    /\ videos'[i].id = r.id
                    /\ videos'[i].url = videos[i].url]_vars

\* the analysis of the first URL has failed, its record is still queued
\* behind nothing, a second URL has been added, and the page is idle: the
\* first URL can be typed again and is refused
C26_Witness ==
    /\ Len(videos) = 2
    /\ videos[1].url = U_yt_watch
    /\ videos[1].status = "error"
    /\ videos[1].trail = <<"pending", "analyzing", "error">>
    /\ videos[2].url = U_tiktok
    /\ ~isAnalyzing

(***************************************************************************)
(* C27                                                                     *)
(***************************************************************************)
\* the label is in the list
Offers(qualities, q) == \E k \in 1..Len(qualities) : qualities[k] = q

\* C27: while the page's record is ready or downloading, its qualities are
\* those of the analysis and not empty, and its selected quality is one of
\* them; until the user changes the selection it is 720p when the list has
\* 720p and the first of the list otherwise, and the quality a download
\* asks for is the selected one.
C27_SelectedQualityOffered ==
    /\ [](video.status \in {"ready", "downloading"} =>
            /\ Len(video.qualities) > 0
            /\ Offers(video.qualities, video.selectedQuality)
            /\ (IsDownload /\ req.from = "ui") =>
                  req.body.quality = video.selectedQuality)
    /\ [][(video.status = "analyzing" /\ video'.status = "ready") =>
            /\ video'.qualities = resp.meta.qualities
            /\ video'.selectedQuality =
                  IF Offers(video'.qualities, "720p") THEN "720p"
                  ELSE video'.qualities[1]]_vars

\* the analysis of a TikTok URL gave HD and SD, HD was selected first, and
\* the user changed the selection to SD before downloading
C27_Witness ==
    /\ IsDownload
    /\ req.from = "ui"
    /\ video.status = "downloading"
    /\ video.qualities = <<"HD", "SD">>
    /\ video.selectedQuality = "SD"
    /\ req.body.quality = "SD"

(***************************************************************************)
(* C28                                                                     *)
(***************************************************************************)
\* C28: a step of a request whose record is no longer in the queue (its
\* answer, a chunk, its end or its failure) leaves the queue as it was:
\* the record is not added again and no other record changes.
C28_LateUpdatesIgnored ==
    [][\A r \in inflight :
          (r \notin inflight' /\ ~Queued(videos, r.id)) => videos' = videos]_vars

\* the first video was removed while it was being downloaded, a chunk of
\* its body has arrived since, and the second video is in the queue, ready
C28_Witness ==
    /\ \E r \in inflight : r.id = 1 /\ r.kind = "download" /\ r.late > 0
    /\ Len(videos) = 1
    /\ videos[1].id = 2
    /\ videos[1].status = "ready"

(***************************************************************************)
(* C29                                                                     *)
(***************************************************************************)
\* C29: the name the page saves a download as is the name the server put
\* between the quotes of the Content-Disposition header, with nothing
\* before or after it; the name of a YouTube download is at most 50 word
\* characters, white space and hyphens, followed by .mp4.
C29_SavedUnderServerName ==
    /\ filename # <<>> => filename = ServerFilename(source)
    /\ (contentDisposition # <<>> /\ source.platform = "youtube") =>
          LET name == ServerFilename(source)
              stem == SubSeq(name, 1, Len(name) - Len(P_mp4))
          IN  /\ contentDisposition = DispositionHeader(name)
              /\ Len(stem) <= 50
              /\ \A k \in 1..Len(stem) : IsNameChar(stem[k])
              /\ SubSeq(name, Len(stem) + 1, Len(name)) = P_mp4

(***************************************************************************)
(* C30                                                                     *)
(***************************************************************************)
\* updates the page passes to updateVideo
SomeUpdates ==
    { [status |-> "error"],
      [progress |-> 50],
      [selectedQuality |-> "SD"],
      [status |-> "completed", progress |-> 100],
      [qualities |-> <<"HD", "SD">>, selectedQuality |-> "HD", status |-> "ready"] }

\* the fields of a record but for the history kept with it
Fields(v) == DOMAIN v \ {"trail"}

\* w is vs with the fields named in u, and only those, set in the record
\* of id
OnlyUpdated(vs, w, id, u) ==
    /\ Len(w) = Len(vs)
    /\ \A i \in 1..Len(vs) :
          IF vs[i].id = id
          THEN \A f \in Fields(vs[i]) :
                  w[i][f] = IF f \in DOMAIN u THEN u[f] ELSE vs[i][f]
          ELSE w[i] = vs[i]

\* C30: applied to any queue the page reaches, updateVideo(id, updates)
\* changes the fields named in updates of the record of id and nothing
\* else, the length and the order of the queue included, and changes
\* nothing when no record has the id; removeVideo(id) gives the queue
\* without the record of id, and clearCompleted the queue without its
\* completed records, the rest unchanged and in order.  Every step of the
\* page is of one of these kinds: it appends one record, or keeps the ids
\* in place, or leaves the other records in order and unchanged.
C30_OnlyWhatIsNamed ==
    /\ [](\A id \in 0..(nextId + 1) :
            /\ \A u \in SomeUpdates :
                  /\ OnlyUpdated(videos, updateVideo(videos, id, u), id, u)
                  /\ ~Queued(videos, id) => updateVideo(videos, id, u) = videos
            /\ removeVideo(videos, id) = SelectSeq(videos, LAMBDA v : v.id # id))
    /\ [](clearCompleted(videos) = SelectSeq(videos, LAMBDA v : v.status # "completed"))
    /\ [][\/ /\ Len(videos') = Len(videos) + 1
              /\ SubSeq(videos', 1, Len(videos)) = videos
           \/ /\ Len(videos') = Len(videos)
              /\ \A i \in 1..Len(videos) :
                    /\ videos'[i].id = videos[i].id
                    /\ videos'[i].url = videos[i].url
              /\ \A i, j \in 1..Len(videos) :
                    (videos'[i] # videos[i] /\ videos'[j] # videos[j]) => i = j
           \/ /\ Len(videos') < Len(videos)
              /\ \/ \E id \in 1..nextId :
                       videos' = SelectSeq(videos, LAMBDA v : v.id # id)
                 \/ videos' = SelectSeq(videos, LAMBDA v : v.status # "completed")]_vars

\* a queue of a completed record followed by one whose download has got
\* half of its chunks: the progress report changed the second record only,
\* and clearCompleted leaves exactly the second
C30_Witness ==
    /\ Len(videos) = 2
    /\ videos[1].status = "completed"
    /\ videos[1].progress = 100
    /\ videos[2].status = "downloading"
    /\ videos[2].progress = 50
    /\ clearCompleted(videos) = <<videos[2]>>
    /\ removeVideo(videos, videos[2].id) = <<videos[1]>>

=============================================================================
